---- MODULE Spec2Model ----
(***************************************************************************)
(* HyperFlow market-data pipeline: the persisted store (candles, ETL log,  *)
(* anomaly events), the z-score anomaly detector, the API client with its  *)
(* retry loop, the normalizers and resamplers of the data processor, and   *)
(* the programs that write the store (pipeline run, standardization,       *)
(* 30-day load, dashboard).                                                *)
(*                                                                         *)
(* Numbers.  Prices and volumes are non-negative integers.  A float NaN is *)
(* the sentinel NaN, a Python None the sentinel None.  A z-score is kept   *)
(* exactly, as its sign and its square num/den, so that "|z| > threshold"  *)
(* is decided in integer arithmetic.  Returns are kept times the least     *)
(* common multiple of the closes, rolling volatility is kept as the        *)
(* integer square root of the window's scaled sum of squares: both are a   *)
(* common positive factor away from the float values, and a z-score does   *)
(* not change under such a factor.  The integer root is exact in effect    *)
(* for the tables used here: their volatility column takes one value       *)
(* besides 0, and the z-scores of such a column depend on where the value  *)
(* stands, not on how large it is.                                         *)
(***************************************************************************)
EXTENDS Integers, Sequences, FiniteSets, TLC

VARIABLES
    ohlcv,      \* table ohlcv: the set of its rows
    etl_logs,   \* table etl_logs: sequence of entries in rowid order
    anomalies,  \* table anomalies: sequence of events in rowid order
    run,        \* the batch program in progress and its loop position
    last,       \* outcome of the last operation (return value / exception)
    seen,       \* history: (coin, timestamp value) pairs handed to the executed inserts
    ops,        \* number of operations started
    df,         \* the input under analysis: detector table, client script, payload
    out         \* what was computed of df: detector columns, client call, tables

vars == <<ohlcv, etl_logs, anomalies, run, last, seen, ops, df, out>>

-----------------------------------------------------------------------------
(* Configuration                                                           *)

\* the first two of the five coins of Config.SUPPORTED_COINS
SUPPORTED_COINS == <<"bitcoin", "ethereum">>

VOLUME_ZSCORE_THRESHOLD == [num |-> 3, den |-> 1]

PRICE_ZSCORE_THRESHOLD == [num |-> 5, den |-> 2]

VolatilityWindow == 24

NaN == -1

None == -2

-----------------------------------------------------------------------------
(* Sequence and integer helpers                                            *)

Range(s) == {s[i] : i \in DOMAIN s}

RECURSIVE SumTo(_, _)
SumTo(s, k) == IF k = 0 THEN 0 ELSE s[k] + SumTo(s, k - 1)

SumSeq(s) == SumTo(s, Len(s))

RECURSIVE Gcd(_, _)
Gcd(a, b) == IF b = 0 THEN a ELSE Gcd(b, a % b)

RECURSIVE LcmSet(_)
LcmSet(S) ==
    IF S = {} THEN 1
    ELSE LET x == CHOOSE y \in S : TRUE
             l == LcmSet(S \ {x})
         IN (x * l) \div Gcd(x, l)

LcmSeq(s) == LcmSet(Range(s))

\* largest r with r*r <= n, searched in lo..hi-1 (lo*lo <= n < hi*hi)
RECURSIVE SqrtBisect(_, _, _)
SqrtBisect(n, lo, hi) ==
    IF hi - lo <= 1 THEN lo
    ELSE LET mid == (lo + hi) \div 2
         IN IF mid * mid <= n THEN SqrtBisect(n, mid, hi) ELSE SqrtBisect(n, lo, mid)

ISqrt(n) == SqrtBisect(n, 0, 46341)

IsPrefix(s, t) == Len(s) <= Len(t) /\ SubSeq(t, 1, Len(s)) = s

-----------------------------------------------------------------------------
(* Series statistics as pandas computes them.  A metric column is a        *)
(* sequence of cells [nan, v]; mean() and std() skip the NaN cells, std()  *)
(* is the sample deviation (ddof = 1) and is NaN for fewer than two values.*)

Cell(x) == [nan |-> FALSE, v |-> x]

NaNCell == [nan |-> TRUE, v |-> 0]

\* the defined values of a column, in row order
Defined(col) ==
    LET d == SelectSeq(col, LAMBDA c : ~c.nan) IN [i \in 1..Len(d) |-> d[i].v]

\* n^2 times the sum of squared deviations of the values v from their mean
SumSqDev(v) ==
    LET n == Len(v)
        s == SumSeq(v)
    IN SumSeq([i \in 1..n |-> (n * v[i] - s) * (n * v[i] - s)])

StdIsNaN(col) == Len(Defined(col)) < 2

StdIsZero(col) == ~StdIsNaN(col) /\ SumSqDev(Defined(col)) = 0

ZNaN == [nan |-> TRUE, sign |-> 0, num |-> 0, den |-> 1]

ZZero == [nan |-> FALSE, sign |-> 0, num |-> 0, den |-> 1]

Sign(x) == IF x > 0 THEN 1 ELSE IF x < 0 THEN -1 ELSE 0

\* faulty variant: the squared z-score compared with the threshold itself
AbsGreaterUnsquared(z, thr) ==
    /\ ~z.nan
    /\ thr.den * z.num > thr.num * z.den

\* abs(z) > threshold; a comparison with NaN is False
AbsGreater(z, thr) ==
    /\ ~z.nan
    /\ thr.den * thr.den * z.num > thr.num * thr.num * z.den

\* faulty variant: no std == 0 branch, so a constant column divides 0 by 0
ZScoreColumnNoZeroBranch(col) ==
    LET v == Defined(col)
        n == Len(v)
        s == SumSeq(v)
        ss == SumSqDev(v)
    IN [i \in 1..Len(col) |->
           IF col[i].nan \/ n < 2 \/ ss = 0 THEN ZNaN
           ELSE [nan |-> FALSE, sign |-> Sign(n * col[i].v - s),
                 num |-> (n * col[i].v - s) * (n * col[i].v - s) * (n - 1),
                 den |-> ss]]

\* the z-score column: the scalar 0 on every row when std == 0
ZScoreColumn(col) ==
    LET v == Defined(col)
        n == Len(v)
        s == SumSeq(v)
        ss == SumSqDev(v)
    IN IF n >= 2 /\ ss = 0 THEN [i \in 1..Len(col) |-> ZZero]
       ELSE [i \in 1..Len(col) |->
               IF col[i].nan \/ n < 2 THEN ZNaN
               ELSE [nan |-> FALSE, sign |-> Sign(n * col[i].v - s),
                     num |-> (n * col[i].v - s) * (n * col[i].v - s) * (n - 1),
                     den |-> ss]]

\* the flag column: the scalar False on every row when std == 0,
\* else abs(zscore) > threshold
AnomalyColumn(col, zs, thr) ==
    IF StdIsZero(col) THEN [i \in 1..Len(col) |-> FALSE]
    ELSE [i \in 1..Len(col) |-> AbsGreater(zs[i], thr)]

-----------------------------------------------------------------------------
(* Timestamps.  A pandas Timestamp is [kind "ts"]; a string is [kind "str"] *)
(* in ISO form (fmt "T") or with a blank between date and time (fmt " ").  *)

Timestamp(t) == [kind |-> "ts", fmt |-> "-", t |-> t]

TsString(f, t) == [kind |-> "str", fmt |-> f, t |-> t]

\* ts_value.isoformat() when the value has it, else str(ts_value)
TsToStr(ts_value) ==
    IF ts_value.kind = "ts" THEN TsString("T", ts_value.t) ELSE ts_value

\* pd.to_datetime of a stored string
ToDatetime(s) == Timestamp(s.t)

-----------------------------------------------------------------------------
(* Anomaly detector                                                        *)

VolumeColumn(table) ==
    [i \in 1..Len(table) |->
        IF table[i].volume = NaN THEN NaNCell ELSE Cell(table[i].volume)]

CloseLcm(table) == LcmSeq([i \in 1..Len(table) |-> table[i].close])

\* close.pct_change(), times CloseLcm: NaN on the first row
ReturnsColumn(table) ==
    LET l == CloseLcm(table)
    IN [i \in 1..Len(table) |->
          IF i = 1 THEN NaNCell
          ELSE Cell((table[i].close - table[i-1].close) * (l \div table[i-1].close))]

\* returns.rolling(window).std(): NaN until the window holds `window`
\* defined returns; else the root of the window's scaled sum of squares
VolatilityColumn(table, window) ==
    LET r == ReturnsColumn(table)
    IN [i \in 1..Len(table) |->
          IF i - window + 1 < 2 THEN NaNCell
          ELSE Cell(ISqrt(SumSqDev([j \in 1..window |-> r[i - window + j].v])))]

\* faulty variant: the loop runs over every row of the table, not the flagged ones
AnomalyEventsEveryRow(table, coin, type, values, zs, flags, thr) ==
    [k \in 1..Len(table) |->
        [coin |-> coin, timestamp |-> TsToStr(table[k].timestamp),
         anomaly_type |-> type, value |-> values[k],
         zscore |-> zs[k], threshold |-> thr]]

\* the insert_anomaly calls of one detector, one per flagged row in row order
AnomalyEvents(table, coin, type, values, zs, flags, thr) ==
    LET idx == SelectSeq([i \in 1..Len(table) |-> i], LAMBDA i : flags[i])
    IN [k \in 1..Len(idx) |->
          [coin |-> coin, timestamp |-> TsToStr(table[idx[k]].timestamp),
           anomaly_type |-> type, value |-> values[idx[k]],
           zscore |-> zs[idx[k]], threshold |-> thr]]

NoDetection == [present |-> FALSE, zscore |-> <<>>, anomaly |-> <<>>, events |-> <<>>]

Detection(table, coin, type, col, values, thr) ==
    LET zs == ZScoreColumn(col)
        flags == AnomalyColumn(col, zs, thr)
    IN [present |-> TRUE, zscore |-> zs, anomaly |-> flags,
        events |-> AnomalyEvents(table, coin, type, values, zs, flags, thr)]

detect_volume_anomalies(table, coin) ==
    IF table = <<>> THEN NoDetection
    ELSE Detection(table, coin, "volume", VolumeColumn(table),
                   [i \in 1..Len(table) |-> table[i].volume],
                   VOLUME_ZSCORE_THRESHOLD)

detect_price_anomalies(table, coin) ==
    IF table = <<>> THEN NoDetection
    ELSE Detection(table, coin, "price", ReturnsColumn(table),
                   [i \in 1..Len(table) |-> table[i].close],
                   PRICE_ZSCORE_THRESHOLD)

detect_volatility_spikes(table, coin, window) ==
    IF table = <<>> THEN NoDetection
    ELSE LET vcol == VolatilityColumn(table, window)
         IN Detection(table, coin, "volatility", vcol,
                      [i \in 1..Len(table) |-> IF vcol[i].nan THEN NaN ELSE vcol[i].v],
                      PRICE_ZSCORE_THRESHOLD)

\* df.get(flag, False) of a detector's flag column
FlagAt(d, i) == IF d.present THEN d.anomaly[i] ELSE FALSE

detect_all_anomalies(table, coin) ==
    LET vol == detect_volume_anomalies(table, coin)
        pri == detect_price_anomalies(table, coin)
        vlt == detect_volatility_spikes(table, coin, VolatilityWindow)
    IN [volume |-> vol, price |-> pri, volatility |-> vlt,
        any_anomaly |-> [i \in 1..Len(table) |->
                            FlagAt(vol, i) \/ FlagAt(pri, i) \/ FlagAt(vlt, i)],
        events |-> vol.events \o pri.events \o vlt.events]

-----------------------------------------------------------------------------
(* Bounds of the model                                                     *)

\* rows of a table handed to the detector, beyond which the long tables start
MaxRows == 11

\* rows of a detector table that differ from the table's base value
MaxOutliers == 1

\* detector calls on one table
MaxDetectRuns == 2

-----------------------------------------------------------------------------
(* Tables handed to the detector: ascending timestamps 1..n, one coin.     *)

Coins == Range(SUPPORTED_COINS)

VolBase == 10

VolSpike == 500

CloseBase == 2

CloseDevs == {1, 4}

Candle(coin, t, close, volume) ==
    [coin |-> coin, timestamp |-> Timestamp(t), open |-> close, high |-> close,
     low |-> close, close |-> close, volume |-> volume]

\* series of length n equal to base except on at most MaxOutliers rows
SeriesNear(n, base, devs) ==
    { [i \in 1..n |-> IF i \in P THEN g[i] ELSE base] :
        P \in {Q \in SUBSET (1..n) : Cardinality(Q) <= MaxOutliers},
        g \in [1..n -> devs] }

ConstSeries(n, x) == [i \in 1..n |-> x]

\* closes equal to lo before row p and hi from row p on
StepSeries(n, p, lo, hi) == [i \in 1..n |-> IF i < p THEN lo ELSE hi]

TableOf(coin, closes, volumes) ==
    [i \in 1..Len(closes) |-> Candle(coin, i, closes[i], volumes[i])]

ShortTables ==
    UNION { { TableOf(coin, ConstSeries(n, CloseBase), v) :
                v \in SeriesNear(n, VolBase, {NaN, VolSpike}), coin \in Coins }
            \cup { TableOf(coin, c, ConstSeries(n, VolBase)) :
                c \in SeriesNear(n, CloseBase, CloseDevs), coin \in Coins }
            \cup { TableOf(coin, ConstSeries(n, CloseBase), ConstSeries(n, NaN)) :
                coin \in Coins }
          : n \in 1..MaxRows }

\* volume equal to VolBase except for one row above it, row p
SpikeSeries(n, p) == [i \in 1..n |-> IF i = p THEN VolBase + 1 ELSE VolBase]

LongTables ==
    UNION { { TableOf("bitcoin", StepSeries(n, p, CloseBase, hi), ConstSeries(n, VolBase)) :
                p \in 2..(n + 1), hi \in CloseDevs }
            \cup { TableOf("ethereum", StepSeries(n, 2, CloseBase, 4), SpikeSeries(n, p)) :
                p \in 1..n }
          : n \in (VolatilityWindow + 1)..(VolatilityWindow + MaxRows) }

DetectTables == ShortTables \cup LongTables

-----------------------------------------------------------------------------
(* Persistence layer                                                       *)

\* sqlite3 binds None and a float NaN as NULL
IsNull(x) == x = None \/ x = NaN

\* faulty variant: the volume is bound as it was given
OhlcvRecordVolumeAsGiven(record) ==
    [coin |-> record.coin, timestamp |-> TsToStr(record.timestamp),
     open |-> record.open, high |-> record.high, low |-> record.low,
     close |-> record.close,
     volume |-> IF "volume" \notin DOMAIN record THEN None ELSE record.volume]

\* the tuple insert_ohlcv_data builds of one record; volume None/NaN -> 0.0
OhlcvRecord(record) ==
    [coin |-> record.coin, timestamp |-> TsToStr(record.timestamp),
     open |-> record.open, high |-> record.high, low |-> record.low,
     close |-> record.close,
     volume |-> IF "volume" \notin DOMAIN record THEN 0
                ELSE IF IsNull(record.volume) THEN 0 ELSE record.volume]

\* record['coin'] ... record['close'] raise KeyError on a missing key
HasKeys(record) ==
    {"coin", "timestamp", "open", "high", "low", "close"} \subseteq DOMAIN record

\* the NOT NULL price columns of table ohlcv (the volume bound by OhlcvRecord
\* is never NULL)
NotNullOk(rec) ==
    ~(IsNull(rec.open) \/ IsNull(rec.high) \/ IsNull(rec.low) \/ IsNull(rec.close))

\* faulty variant: a plain INSERT into a table without the UNIQUE constraint
InsertPlain(table, rec) == table \cup {rec}

\* INSERT OR REPLACE under UNIQUE(coin, timestamp): the row in conflict is deleted
InsertOrReplace(table, rec) ==
    {r \in table : ~(r.coin = rec.coin /\ r.timestamp = rec.timestamp)} \cup {rec}

\* cursor.executemany: the records in order, stopping at the first that violates
\* NOT NULL (IntegrityError); table is the state inside the open transaction
RECURSIVE ExecuteMany(_, _, _)
ExecuteMany(table, records, k) ==
    IF k > Len(records) THEN [table |-> table, ok |-> TRUE]
    ELSE IF ~NotNullOk(records[k]) THEN [table |-> table, ok |-> FALSE]
    ELSE ExecuteMany(InsertOrReplace(table, records[k]), records, k + 1)

\* faulty variant: a connection that keeps what was written when the block raises
TransactionNoRollback(before, after, committed) == after

\* get_connection around a body that ends with conn.commit(): the body's writes
\* when it committed, the state before it (conn.rollback()) when it raised
TransactionScope(before, after, committed) ==
    IF committed THEN after ELSE before

\* insert_ohlcv_data on the table; fault: sqlite raises an OperationalError
\* (locked database, I/O error) after the rows were executed
insert_ohlcv_data(table, data, fault) ==
    IF data = <<>> THEN [table |-> table, raised |-> FALSE, rowcount |-> 0]
    ELSE IF \E i \in 1..Len(data) : ~HasKeys(data[i])
         THEN [table |-> table, raised |-> TRUE, rowcount |-> 0]
    ELSE LET records == [i \in 1..Len(data) |-> OhlcvRecord(data[i])]
             tx == ExecuteMany(table, records, 1)
             committed == tx.ok /\ ~fault
         IN [table |-> TransactionScope(table, tx.table, committed),
             raised |-> ~committed,
             rowcount |-> IF committed THEN Len(data) ELSE 0]

\* faulty variant: DELETE FROM ohlcv without the WHERE clause
DeleteEveryCoin(table, coin) == {}

\* execute_update("DELETE FROM ohlcv WHERE coin = ?"), committed on its own
DeleteCoin(table, coin) == {r \in table : r.coin # coin}

RECURSIVE InsertAnomaliesDedup(_, _)
\* faulty variant: an event is skipped when one with its (coin, timestamp, type) is stored
InsertAnomaliesDedup(table, events) ==
    IF events = <<>> THEN table
    ELSE LET e == Head(events)
             dup == \E k \in 1..Len(table) :
                       /\ table[k].coin = e.coin /\ table[k].timestamp = e.timestamp
                       /\ table[k].anomaly_type = e.anomaly_type
         IN InsertAnomaliesDedup(IF dup THEN table ELSE Append(table, e), Tail(events))

\* faulty variant: one entry per coin, the new entry taking the place of the old
InsertEtlLogReplace(logs, coin, status, records_processed) ==
    Append(SelectSeq(logs, LAMBDA e : e.coin # coin),
           [coin |-> coin, status |-> status, records_processed |-> records_processed])

\* insert_anomaly, once per event: plain INSERT, each committed on its own
insert_anomalies(table, events) == table \o events

insert_etl_log(logs, coin, status, records_processed) ==
    Append(logs, [coin |-> coin, status |-> status,
                  records_processed |-> records_processed])

\* rows ascending by the instant of their timestamp
RECURSIVE SortByTime(_)
SortByTime(rows) ==
    IF rows = {} THEN <<>>
    ELSE LET m == CHOOSE r \in rows : \A q \in rows : r.timestamp.t <= q.timestamp.t
         IN <<m>> \o SortByTime(rows \ {m})

\* the column timestamp is TEXT and is compared as text: the instants of the
\* model lie in one day, so two strings differ first in the character between
\* date and time (a blank sorts before "T"), then in the time
TextLeq(a, b) ==
    IF a.fmt = b.fmt THEN a.t <= b.t ELSE a.fmt = " "

\* ORDER BY timestamp: the rows ascending by their timestamp string
RECURSIVE SortByText(_)
SortByText(rows) ==
    IF rows = {} THEN <<>>
    ELSE LET m == CHOOSE r \in rows : \A q \in rows : TextLeq(r.timestamp, q.timestamp)
         IN <<m>> \o SortByText(rows \ {m})

\* faulty variant: ORDER BY timestamp ASC
GetLatestAscending(table, coin, limit) ==
    LET asc == SortByText({r \in table : r.coin = coin})
        n == Len(asc)
        k == IF limit < n THEN limit ELSE n
    IN SubSeq(asc, 1, k)

\* get_latest_data: WHERE coin = ? ORDER BY timestamp DESC LIMIT ?
get_latest_data(table, coin, limit) ==
    LET asc == SortByText({r \in table : r.coin = coin})
        n == Len(asc)
        k == IF limit < n THEN limit ELSE n
    IN [i \in 1..k |-> asc[n + 1 - i]]

-----------------------------------------------------------------------------
(* Market data normalizer                                                  *)

\* a row shorter than the column list is padded with None by the DataFrame
Field(row, k) == IF k <= Len(row) THEN row[k] ELSE None

\* pd.to_numeric(errors='coerce')
ToNumeric(x) == IF x = None THEN NaN ELSE x

\* stable insertion of a row into rows sorted ascending by timestamp
RECURSIVE SortedInsert(_, _)
SortedInsert(rows, r) ==
    IF rows = <<>> THEN <<r>>
    ELSE IF rows[Len(rows)].timestamp.t <= r.timestamp.t THEN Append(rows, r)
    ELSE Append(SortedInsert(SubSeq(rows, 1, Len(rows) - 1), r), rows[Len(rows)])

\* faulty variant: the rows are left in the order of the payload
SortValuesKeepOrder(rows, k) == rows

RECURSIVE SortValues(_, _)
SortValues(rows, k) ==
    IF k = 0 THEN <<>> ELSE SortedInsert(SortValues(rows, k - 1), rows[k])

normalize_ohlcv_data(ohlcv_data, coin_id) ==
    IF ohlcv_data = <<>> THEN [raised |-> FALSE, rows |-> <<>>]
    ELSE LET first_row_len == Len(ohlcv_data[1])
         IN IF first_row_len \notin {5, 6} THEN [raised |-> FALSE, rows |-> <<>>]
            ELSE IF \E i \in 1..Len(ohlcv_data) : Len(ohlcv_data[i]) > first_row_len
                 THEN [raised |-> TRUE, rows |-> <<>>]
            ELSE LET all == [i \in 1..Len(ohlcv_data) |->
                                [coin |-> coin_id,
                                 timestamp |-> Timestamp(ohlcv_data[i][1]),
                                 open |-> ToNumeric(Field(ohlcv_data[i], 2)),
                                 high |-> ToNumeric(Field(ohlcv_data[i], 3)),
                                 low |-> ToNumeric(Field(ohlcv_data[i], 4)),
                                 close |-> ToNumeric(Field(ohlcv_data[i], 5)),
                                 volume |-> IF first_row_len = 5 THEN NaN
                                            ELSE ToNumeric(Field(ohlcv_data[i], 6))]]
                     kept == SelectSeq(all, LAMBDA r :
                                ~(r.open = NaN \/ r.high = NaN \/ r.low = NaN \/ r.close = NaN))
                 IN [raised |-> FALSE, rows |-> SortValues(kept, Len(kept))]

-----------------------------------------------------------------------------
(* Resampler (tick series -> fixed-width candles)                          *)

\* ticks per candle bucket (a 30-minute bucket of 15-minute ticks)
BucketWidth == 2

\* right-closed, right-labelled: the smallest bucket boundary >= t
BucketLabel(t) == ((t + BucketWidth - 1) \div BucketWidth) * BucketWidth

\* open = first, high = max, low = min, close = last, volume = sum per bucket;
\* ticks ascending by t; a bucket without tick yields no candle
build_ohlcv_from_ticks(ticks, coin) ==
    LET labels == {BucketLabel(ticks[i].t) : i \in 1..Len(ticks)}
        In(b) == SelectSeq(ticks, LAMBDA k : BucketLabel(k.t) = b)
        CandleOf(b) ==
            LET ks == In(b)
                ps == {ks[i].price : i \in 1..Len(ks)}
            IN [coin |-> coin, timestamp |-> Timestamp(b),
                open |-> ks[1].price,
                high |-> CHOOSE x \in ps : \A y \in ps : y <= x,
                low |-> CHOOSE x \in ps : \A y \in ps : x <= y,
                close |-> ks[Len(ks)].price,
                volume |-> SumSeq([i \in 1..Len(ks) |-> ks[i].volume])]
    IN SortByTime({CandleOf(b) : b \in labels})

-----------------------------------------------------------------------------
(* Price history normalizer (DataProcessor.normalize_price_history).  A    *)
(* point is <<timestamp, value>>; price_data has the keys the body had.    *)

\* df.merge(volume_df, on='timestamp', how='left'): per price point, in order,
\* one row per volume point of equal timestamp, or one row with volume NaN
RECURSIVE MergeLeft(_, _)
MergeLeft(prices, volumes) ==
    IF prices = <<>> THEN <<>>
    ELSE LET p == Head(prices)
             hits == SelectSeq(volumes, LAMBDA v : v[1] = p[1])
             rows == IF hits = <<>>
                     THEN <<[timestamp |-> Timestamp(p[1]), price |-> p[2], volume |-> NaN]>>
                     ELSE [k \in 1..Len(hits) |->
                              [timestamp |-> Timestamp(p[1]), price |-> p[2],
                               volume |-> hits[k][2]]]
         IN rows \o MergeLeft(Tail(prices), volumes)

\* df.dropna() without subset: a row with NaN in any column is dropped
DropNa(rows) == SelectSeq(rows, LAMBDA r : r.price # NaN /\ r.volume # NaN)

normalize_price_history(price_data, coin_id) ==
    IF "prices" \notin DOMAIN price_data THEN <<>>
    ELSE LET prices == price_data.prices
             volumes == IF "total_volumes" \in DOMAIN price_data
                        THEN price_data.total_volumes ELSE <<>>
         IN IF prices = <<>> THEN <<>>
            ELSE LET merged == IF volumes # <<>> /\ Len(volumes) = Len(prices)
                               THEN MergeLeft(prices, volumes)
                               ELSE [i \in 1..Len(prices) |->
                                        [timestamp |-> Timestamp(prices[i][1]),
                                         price |-> prices[i][2], volume |-> NaN]]
                     numeric == [i \in 1..Len(merged) |->
                                    [coin |-> coin_id,
                                     timestamp |-> merged[i].timestamp,
                                     price |-> ToNumeric(merged[i].price),
                                     volume |-> ToNumeric(merged[i].volume)]]
                     kept == DropNa(numeric)
                 IN SortValues(kept, Len(kept))

-----------------------------------------------------------------------------
(* Resampling with pandas (standardize_candles._resample_to_30min,         *)
(* DataProcessor.resample_data).  Time is counted in quarters of an hour   *)
(* since midnight, which is where pandas anchors the buckets.              *)

\* '30min' and '1H' in quarters of an hour
HalfHour == 2
OneHour == 4

\* closed='right', label='right': the smallest boundary >= t
LabelRight(t, freq) == ((t + freq - 1) \div freq) * freq

\* the defaults of resample for these frequencies, closed='left' and
\* label='left': the largest boundary <= t
LabelLeft(t, freq) == (t \div freq) * freq

\* the values of a column that are not NaN, in row order
Valid(rows, col) ==
    LET vals == [i \in 1..Len(rows) |-> rows[i][col]]
    IN SelectSeq(vals, LAMBDA x : x # NaN)

AggMax(vals) == IF vals = <<>> THEN NaN
                ELSE CHOOSE x \in Range(vals) : \A y \in Range(vals) : y <= x

AggMin(vals) == IF vals = <<>> THEN NaN
                ELSE CHOOSE x \in Range(vals) : \A y \in Range(vals) : x <= y

\* faulty variant: the open of a bucket is taken from its last row
AggFirstFromLast(vals) == IF vals = <<>> THEN NaN ELSE vals[Len(vals)]

AggFirst(vals) == IF vals = <<>> THEN NaN ELSE vals[1]

AggLast(vals) == IF vals = <<>> THEN NaN ELSE vals[Len(vals)]

\* df.resample(freq).agg(ohlc).dropna().reset_index(): the rows are taken in
\* index order, every bucket from the first to the last is aggregated (an
\* empty one to NaN prices and volume 0), and dropna removes the buckets
\* without a price
Resample(rows, freq) ==
    LET sorted == SortValues(rows, Len(rows))
        labels == {LabelLeft(sorted[i].timestamp.t, freq) : i \in 1..Len(sorted)}
        lo == CHOOSE b \in labels : \A c \in labels : b <= c
        hi == CHOOSE b \in labels : \A c \in labels : c <= b
        bins == [k \in 1..((hi - lo) \div freq + 1) |-> lo + (k - 1) * freq]
        In(b) == SelectSeq(sorted, LAMBDA r : LabelLeft(r.timestamp.t, freq) = b)
        Agg(b) == [timestamp |-> Timestamp(b),
                   open |-> AggFirst(Valid(In(b), "open")),
                   high |-> AggMax(Valid(In(b), "high")),
                   low |-> AggMin(Valid(In(b), "low")),
                   close |-> AggLast(Valid(In(b), "close")),
                   volume |-> SumSeq(Valid(In(b), "volume"))]
        all == [k \in 1..Len(bins) |-> Agg(bins[k])]
    IN IF rows = <<>> THEN <<>>
       ELSE SelectSeq(all, LAMBDA c : ~(c.open = NaN \/ c.high = NaN
                                          \/ c.low = NaN \/ c.close = NaN))

\* open, high and low are copied from close before resampling
_resample_to_30min(frame) ==
    IF frame = <<>> THEN frame
    ELSE Resample([i \in 1..Len(frame) |->
                      [timestamp |-> frame[i].timestamp, open |-> frame[i].close,
                       high |-> frame[i].close, low |-> frame[i].close,
                       close |-> frame[i].close, volume |-> frame[i].volume]],
                  HalfHour)

resample_data(frame, freq) == Resample(frame, freq)

-----------------------------------------------------------------------------
(* API client (src/ingestion/coingecko_client.py).  A script is what the   *)
(* successive session.get calls of one _make_request call end in.          *)

MAX_RETRIES == 3

RETRY_DELAY == 1

\* session.get returned a response with this status; json: what response.json()
\* does ("ok": the body, "request_error": requests' JSONDecodeError, which is a
\* RequestException since requests 2.27, "value_error": a plain ValueError before)
Response(status, json, body) ==
    [status |-> status, json |-> json, body |-> body, exc |-> ""]

\* session.get raised: "ConnectionError" stands for the RequestException classes
\* (connection error, timeout), "Exception" for any other exception class
GetRaises(exc) == [status |-> 0, json |-> "", body |-> "", exc |-> exc]

Responses ==
    { Response(200, "ok", "pong"), Response(200, "ok", "data"),
      Response(200, "request_error", ""), Response(200, "value_error", ""),
      Response(204, "", ""), Response(404, "", ""), Response(429, "", ""),
      Response(500, "", ""),
      GetRaises("ConnectionError"), GetRaises("Exception") }

\* the scripts of one call: one outcome per possible attempt
Scripts == [1..MAX_RETRIES -> Responses]

\* faulty variant: the delay does not grow with the attempt
Pow2Constant(n) == 1

RECURSIVE Pow2(_)
Pow2(n) == IF n = 0 THEN 1 ELSE 2 * Pow2(n - 1)

\* a call of _make_request that has issued no request yet
NewCall(endpoint) ==
    [endpoint |-> endpoint, status |-> "running", attempt |-> 0, requests |-> 0,
     sleeps |-> <<>>, body |-> "", exc |-> ""]

NoCall == [NewCall("") EXCEPT !.status = "none"]

\* except requests.exceptions.RequestException: re-raise on the last attempt,
\* else sleep RETRY_DELAY * 2 ** attempt and go to the next attempt
Caught(c, exc) ==
    IF c.attempt = MAX_RETRIES - 1
    THEN [c EXCEPT !.status = "raised", !.exc = exc]
    ELSE [c EXCEPT !.sleeps = Append(@, RETRY_DELAY * Pow2(c.attempt)),
                   !.attempt = @ + 1]

\* one pass of the for loop: the request is issued and answered by r
Attempt(call, r) ==
    LET c == [call EXCEPT !.requests = @ + 1]
    IN IF r.exc = "Exception" THEN [c EXCEPT !.status = "raised", !.exc = "Exception"]
       ELSE IF r.exc # "" THEN Caught(c, r.exc)
       ELSE IF r.status = 200
            THEN IF r.json = "ok" THEN [c EXCEPT !.status = "returned", !.body = r.body]
                 ELSE IF r.json = "request_error" THEN Caught(c, "JSONDecodeError")
                 ELSE [c EXCEPT !.status = "raised", !.exc = "ValueError"]
       ELSE IF r.status = 429
            THEN [c EXCEPT !.sleeps = Append(@, RETRY_DELAY * Pow2(c.attempt)),
                           !.attempt = @ + 1]
       ELSE IF r.status >= 400 THEN Caught(c, "HTTPError")
       ELSE [c EXCEPT !.attempt = @ + 1]

\* faulty variant: no raise after the loop, the function falls off its end
ExhaustedReturnsNone(call) == [call EXCEPT !.status = "returned"]

\* the statement after the loop: raise Exception("Max retries exceeded")
Exhausted(call) == [call EXCEPT !.status = "raised", !.exc = "MaxRetriesExceeded"]

\* the call carried through to its end
RECURSIVE RunRequest(_, _)
RunRequest(call, script) ==
    IF call.status # "running" THEN call
    ELSE IF call.attempt >= MAX_RETRIES THEN Exhausted(call)
    ELSE RunRequest(Attempt(call, script[call.attempt + 1]), script)

make_request(endpoint, script) == RunRequest(NewCall(endpoint), script)

\* faulty variant: the handler names requests.exceptions.RequestException
CatchesRequestException(exc) == exc \in {"ConnectionError", "HTTPError", "JSONDecodeError"}

\* except Exception in health_check: every exception class above is caught
HealthCheckCatches(exc) == TRUE

\* health_check of a finished ping call: "true", "false", or "raised" when the
\* exception passes the handler
HealthCheckResult(call) ==
    IF call.status = "returned" THEN "true"
    ELSE IF HealthCheckCatches(call.exc) THEN "false"
    ELSE "raised"

health_check(script) == HealthCheckResult(make_request("ping", script))

\* requests per minute
API_RATE_LIMIT == 10

\* self.rate_limit_delay, in seconds
RateLimitDelay == 60 \div API_RATE_LIMIT

\* a reading of time.time() well after the epoch, in seconds
Epoch == 100

\* the clock of one client instance: now is time.time(), sent the instants at
\* which session.get was called, earliest first
Clock(now, last_request_time, sent) ==
    [now |-> now, last_request_time |-> last_request_time, sent |-> sent]

\* faulty variant: the time of the request is noted without sleeping
RateLimitNoSleep(clock) == [clock EXCEPT !.last_request_time = clock.now]

\* _rate_limit: sleep for what is missing of rate_limit_delay since the last
\* request, then note the time
rate_limit(clock) ==
    LET time_since_last == clock.now - clock.last_request_time
        woke == IF time_since_last < RateLimitDelay
                THEN clock.now + (RateLimitDelay - time_since_last)
                ELSE clock.now
    IN [clock EXCEPT !.now = woke, !.last_request_time = woke]

\* time.sleep(seconds)
Sleep(clock, seconds) == [clock EXCEPT !.now = @ + seconds]

\* self._rate_limit() and session.get, which answers after latency seconds
SendRequest(clock, latency) ==
    LET c == rate_limit(clock)
    IN [c EXCEPT !.sent = Append(@, c.now), !.now = c.now + latency]

\* the seconds slept by the pass of the loop that led from call to next
Slept(call, next) ==
    IF Len(next.sleeps) > Len(call.sleeps) THEN next.sleeps[Len(next.sleeps)] ELSE 0

-----------------------------------------------------------------------------
(* State of the store and of the programs                                  *)

Idle == [prog |-> "none", idx |-> 0, attempts |-> 0]

NoOutput ==
    [op |-> "none", coin |-> "", volume |-> NoDetection, price |-> NoDetection,
     volatility |-> NoDetection, any_anomaly |-> <<>>]

Outcome(op, coin, result, stage, data) ==
    [op |-> op, coin |-> coin, result |-> result, stage |-> stage, data |-> data]

NoOutcome == Outcome("none", "", "none", "none", <<>>)

\* history: the (coin, timestamp value) pairs of a committed insert
Inserted(data) == {<<data[i].coin, data[i].timestamp>> : i \in 1..Len(data)}

-----------------------------------------------------------------------------
(* What the upstream API can answer                                        *)

\* operations started in one behaviour
MaxOps == 2

\* /coins/{id}/ohlc: rows [ts, open, high, low, close(, volume)]
PayloadSpike ==
    [i \in 1..MaxRows |->
        IF i = MaxRows THEN <<i, CloseBase, 4, CloseBase, 4, VolSpike>>
        ELSE <<i, CloseBase, CloseBase, CloseBase, CloseBase, VolBase>>]

PayloadShort == << <<2, 4, 4, 4, 4>>, <<1, 4, 4, 1, 1>> >>

PayloadNull == << <<3, 1, 1, 1, 1>>, <<4, 1, 1, 1, None>> >>

PayloadBadLen == << <<1, 2, 2, 2>> >>

PayloadRagged == << <<1, 2, 2, 2, 2>>, <<2, 2, 2, 2, 2, 7>> >>

OhlcPayloads ==
    {<<>>, PayloadSpike, PayloadShort, PayloadNull, PayloadBadLen, PayloadRagged}

Tick(t, price, volume) == [t |-> t, price |-> price, volume |-> volume]

\* market_chart/range: ticks [ts, price] and [ts, volume], joined on ts
TickPayloads ==
    { <<>>,
      <<Tick(1, 2, 10), Tick(2, 4, 10), Tick(3, 1, 10)>>,
      <<Tick(3, 2, 5), Tick(4, 2, 5), Tick(6, 1, 5)>> }

\* a request either raises (retries exhausted) or returns a body
Fetched(payloads) ==
    {[raised |-> TRUE, data |-> <<>>]} \cup {[raised |-> FALSE, data |-> d] : d \in payloads}

-----------------------------------------------------------------------------
(* Direct use of the store API (tests/test_database.py)                    *)

Rec(coin, ts, o, h, l, c, v) ==
    [coin |-> coin, timestamp |-> ts, open |-> o, high |-> h, low |-> l,
     close |-> c, volume |-> v]

DirectBatches ==
    { <<>>,
      <<Rec("bitcoin", TsString("T", 1), 1, 1, 1, 1, 7),
        Rec("bitcoin", TsString("T", 2), 1, 1, 1, 1, 7)>>,
      <<Rec("bitcoin", TsString("T", 3), 4, 4, 4, 4, 7),
        Rec("bitcoin", TsString("T", 1), 1, 1, 1, 1, 7)>>,
      <<Rec("bitcoin", TsString("T", 1), 2, 2, 2, 2, None),
        Rec("bitcoin", TsString("T", 1), 4, 4, 4, 4, NaN)>>,
      <<Rec("ethereum", TsString(" ", 1), 1, 1, 1, 1, 7),
        Rec("ethereum", Timestamp(1), 4, 4, 4, 4, 7)>>,
      <<Rec("bitcoin", TsString("T", 3), 1, 1, 1, 1, 7),
        Rec("bitcoin", TsString("T", 1), 1, 1, 1, None, 7)>>,
      <<Rec("bitcoin", TsString("T", 3), 1, 1, 1, 1, 7),
        [coin |-> "bitcoin", timestamp |-> TsString("T", 2), open |-> 1,
         high |-> 1, low |-> 1, volume |-> 7]>>,
      <<[coin |-> "ethereum", timestamp |-> Timestamp(2), open |-> 1,
         high |-> 1, low |-> 1, close |-> 1]>> }

Frame == UNCHANGED <<df, out>>

DirectInsert ==
    /\ ops < MaxOps
    /\ \E data \in DirectBatches, fault \in BOOLEAN :
        LET r == insert_ohlcv_data(ohlcv, data, fault)
        IN /\ ohlcv' = r.table
           /\ seen' = IF r.raised THEN seen ELSE seen \cup Inserted(data)
           /\ last' = Outcome("insert_ohlcv_data", "",
                              IF r.raised THEN "raised" ELSE "ok", "store", data)
    /\ ops' = ops + 1
    /\ UNCHANGED <<etl_logs, anomalies, run>>
    /\ Frame

-----------------------------------------------------------------------------
(* Pipeline run (src/main.py)                                              *)

\* the loop moves to the next coin, or ends after the last one
NextCoin == IF run.idx = Len(SUPPORTED_COINS) THEN Idle
            ELSE [run EXCEPT !.idx = run.idx + 1, !.attempts = 0]

\* the ping scripts the health check of a run can meet
PingScripts ==
    { [i \in 1..MAX_RETRIES |-> Response(200, "ok", "pong")],
      [i \in 1..MAX_RETRIES |-> IF i = 1 THEN Response(429, "", "")
                                ELSE Response(200, "ok", "pong")],
      [i \in 1..MAX_RETRIES |-> Response(500, "", "")],
      [i \in 1..MAX_RETRIES |-> GetRaises("Exception")] }

\* what main did before the coin loop: opened tells whether
\* DatabaseConnection() was constructed, requests how many API requests
\* were issued (the outcome also records whether the key was configured)
Startup(result, stage, opened, requests) ==
    [result |-> result, stage |-> stage, opened |-> opened, requests |-> requests]

\* faulty variant: the configuration is validated after the health check
StartupValidateLast(key, script) ==
    LET call == make_request("ping", script)
    IN  IF health_check(script) # "true"
        THEN Startup("unhealthy", "health", TRUE, call.requests)
        ELSE IF ~key THEN Startup("exit", "validate", TRUE, call.requests)
        ELSE Startup("ok", "start", TRUE, call.requests)

\* Config.validate() raises ValueError when the key is missing, which the
\* outer handler turns into sys.exit(1); then the store is opened, then the
\* health check runs, whose False makes main return
StartupSteps(key, script) ==
    LET call == make_request("ping", script)
    IN  IF ~key THEN Startup("exit", "validate", FALSE, 0)
        ELSE IF health_check(script) # "true"
        THEN Startup("unhealthy", "health", TRUE, call.requests)
        ELSE Startup("ok", "start", TRUE, call.requests)

PipelineStart ==
    /\ run = Idle
    /\ ops < MaxOps
    /\ ops' = ops + 1
    /\ \E key \in BOOLEAN, script \in PingScripts :
        LET s == StartupSteps(key, script)
        IN  /\ run' = IF s.result = "ok"
                      THEN [prog |-> "pipeline", idx |-> 1, attempts |-> 0] ELSE Idle
            /\ last' = Outcome("main", "", s.result, s.stage,
                               <<[key |-> key, opened |-> s.opened,
                                  requests |-> s.requests]>>)
    /\ UNCHANGED <<ohlcv, etl_logs, anomalies, seen>>
    /\ Frame

\* the except block of the coin loop: one error entry; when that write raises
\* too the exception reaches the outer handler and the process exits
PipelineError(coin, stage, logFault, anoms, table) ==
    /\ anomalies' = anoms
    /\ ohlcv' = table
    /\ UNCHANGED seen
    /\ IF logFault
       THEN /\ etl_logs' = etl_logs
            /\ run' = Idle
            /\ last' = Outcome("pipeline_coin", coin, "exit", stage, <<>>)
       ELSE /\ etl_logs' = insert_etl_log(etl_logs, coin, "error", 0)
            /\ run' = NextCoin
            /\ last' = Outcome("pipeline_coin", coin, "error", stage, <<>>)

PipelineSkip(coin, result) ==
    /\ run' = NextCoin
    /\ last' = Outcome("pipeline_coin", coin, result, "fetch", <<>>)
    /\ UNCHANGED <<ohlcv, etl_logs, anomalies, seen>>

PipelineCoin ==
    /\ run.prog = "pipeline"
    /\ LET coin == SUPPORTED_COINS[run.idx] IN
       \E fetch \in Fetched(OhlcPayloads), storeFault \in BOOLEAN, logFault \in BOOLEAN :
         IF fetch.raised THEN PipelineError(coin, "fetch", logFault, anomalies, ohlcv)
         ELSE IF fetch.data = <<>> THEN PipelineSkip(coin, "no_data")
         ELSE LET norm == normalize_ohlcv_data(fetch.data, coin) IN
              IF norm.raised THEN PipelineError(coin, "normalize", logFault, anomalies, ohlcv)
              ELSE IF norm.rows = <<>> THEN PipelineSkip(coin, "empty")
              ELSE LET det == detect_all_anomalies(norm.rows, coin)
                       anoms == insert_anomalies(anomalies, det.events)
                       r == insert_ohlcv_data(ohlcv, norm.rows, storeFault)
                   IN IF r.raised THEN PipelineError(coin, "store", logFault, anoms, r.table)
                      ELSE /\ anomalies' = anoms
                           /\ ohlcv' = r.table
                           /\ seen' = seen \cup Inserted(norm.rows)
                           /\ etl_logs' = insert_etl_log(etl_logs, coin, "success", r.rowcount)
                           /\ run' = NextCoin
                           /\ last' = Outcome("pipeline_coin", coin, "success", "done", norm.rows)
    /\ UNCHANGED ops
    /\ Frame

-----------------------------------------------------------------------------
(* Standardization run (src/tools/standardize_candles.py)                  *)

StandardizeStart ==
    /\ run = Idle
    /\ ops < MaxOps
    /\ ops' = ops + 1
    /\ \E healthy \in BOOLEAN :
        /\ run' = IF healthy THEN [prog |-> "standardize", idx |-> 1, attempts |-> 0]
                  ELSE Idle
        /\ last' = Outcome("standardize_main", "", IF healthy THEN "ok" ELSE "exit",
                           "start", <<>>)
    /\ UNCHANGED <<ohlcv, etl_logs, anomalies, seen>>
    /\ Frame

\* standardize_coin under main's try/except, which only logs the exception
StandardizeCoin ==
    /\ run.prog = "standardize"
    /\ LET coin == SUPPORTED_COINS[run.idx] IN
       \E fetch \in Fetched(TickPayloads), storeFault \in BOOLEAN :
         IF fetch.raised
         THEN /\ last' = Outcome("standardize_coin", coin, "error", "fetch", <<>>)
              /\ UNCHANGED <<ohlcv, etl_logs, seen>>
         ELSE IF fetch.data = <<>>
         THEN /\ last' = Outcome("standardize_coin", coin, "no_data", "fetch", <<>>)
              /\ UNCHANGED <<ohlcv, etl_logs, seen>>
         ELSE LET df_30 == build_ohlcv_from_ticks(fetch.data, coin)
                  purged == DeleteCoin(ohlcv, coin)
                  r == insert_ohlcv_data(purged, df_30, storeFault)
              IN /\ ohlcv' = r.table
                 /\ IF r.raised
                    THEN /\ last' = Outcome("standardize_coin", coin, "error", "store", df_30)
                         /\ UNCHANGED <<etl_logs, seen>>
                    ELSE /\ etl_logs' = insert_etl_log(etl_logs, coin, "success", r.rowcount)
                         /\ seen' = seen \cup Inserted(df_30)
                         /\ last' = Outcome("standardize_coin", coin, "success", "done", df_30)
    /\ run' = NextCoin
    /\ UNCHANGED <<anomalies, ops>>
    /\ Frame

-----------------------------------------------------------------------------
(* 30-day load (src/tools/load_ohlc_30d.py) and dashboard refresh          *)

\* attempts of load_coin_ohlc_30d per coin in main
LoadAttempts == 3

\* the frame built of the OHLC body: five named columns, volume joined on or 0.0
OhlcFrame(raw, coin, volume) ==
    LET rows == [i \in 1..Len(raw) |->
                    [coin |-> coin, timestamp |-> Timestamp(raw[i][1]),
                     open |-> ToNumeric(Field(raw[i], 2)),
                     high |-> ToNumeric(Field(raw[i], 3)),
                     low |-> ToNumeric(Field(raw[i], 4)),
                     close |-> ToNumeric(Field(raw[i], 5)),
                     volume |-> volume]]
    IN SortValues(rows, Len(rows))

\* pd.DataFrame(raw, columns=[5 names]) raises when a row is longer
FrameRaises(raw) == \E i \in 1..Len(raw) : Len(raw[i]) > 5

\* purge and insert: DELETE committed, then insert_ohlcv_data
PurgeAndInsert(table, coin, data, fault) ==
    insert_ohlcv_data(DeleteCoin(table, coin), data, fault)

LoadStart ==
    /\ run = Idle
    /\ ops < MaxOps
    /\ ops' = ops + 1
    /\ \E healthy \in BOOLEAN :
        /\ run' = IF healthy THEN [prog |-> "load", idx |-> 1, attempts |-> 0] ELSE Idle
        /\ last' = Outcome("load_main", "", IF healthy THEN "ok" ELSE "exit", "start", <<>>)
    /\ UNCHANGED <<ohlcv, etl_logs, anomalies, seen>>
    /\ Frame

\* an attempt that raised: retried until LoadAttempts attempts were made
LoadRetry ==
    IF run.attempts + 1 >= LoadAttempts THEN NextCoin
    ELSE [run EXCEPT !.attempts = run.attempts + 1]

LoadCoin ==
    /\ run.prog = "load"
    /\ LET coin == SUPPORTED_COINS[run.idx] IN
       \E fetch \in Fetched(OhlcPayloads), volume \in {0, VolBase}, storeFault \in BOOLEAN :
         IF fetch.raised \/ (fetch.data # <<>> /\ FrameRaises(fetch.data))
         THEN /\ last' = Outcome("load_coin", coin, "error", "fetch", <<>>)
              /\ run' = LoadRetry
              /\ UNCHANGED <<ohlcv, etl_logs, seen>>
         ELSE IF fetch.data = <<>>
         THEN /\ last' = Outcome("load_coin", coin, "no_data", "fetch", <<>>)
              /\ run' = NextCoin
              /\ UNCHANGED <<ohlcv, etl_logs, seen>>
         ELSE LET data == OhlcFrame(fetch.data, coin, volume)
                  r == PurgeAndInsert(ohlcv, coin, data, storeFault)
              IN /\ ohlcv' = r.table
                 /\ IF r.raised
                    THEN /\ last' = Outcome("load_coin", coin, "error", "store", data)
                         /\ run' = LoadRetry
                         /\ UNCHANGED <<etl_logs, seen>>
                    ELSE /\ etl_logs' = insert_etl_log(etl_logs, coin, "success", r.rowcount)
                         /\ seen' = seen \cup Inserted(data)
                         /\ run' = NextCoin
                         /\ last' = Outcome("load_coin", coin, "success", "done", data)
    /\ UNCHANGED <<anomalies, ops>>
    /\ Frame

-----------------------------------------------------------------------------
(* Dashboard (src/visualization/dashboard.py)                              *)

\* rows fetched per render: "Last 7 Days" of hourly data
DashboardLimit == 168

\* _get_coin_data: the latest rows, timestamps parsed, ascending
CoinData(table, coin) ==
    LET rows == get_latest_data(table, coin, DashboardLimit)
        n == Len(rows)
    IN [i \in 1..n |-> [rows[n + 1 - i] EXCEPT !.timestamp = ToDatetime(@)]]

\* _render_main_content without "Refresh now": read, compute, detect
DashboardRender ==
    /\ ops < MaxOps
    /\ ops' = ops + 1
    /\ \E coin \in Coins :
        LET data == CoinData(ohlcv, coin)
        IN IF data = <<>>
           THEN /\ last' = Outcome("render", coin, "no_data", "read", <<>>)
                /\ UNCHANGED anomalies
           ELSE /\ anomalies' = insert_anomalies(anomalies,
                                                 detect_all_anomalies(data, coin).events)
                /\ last' = Outcome("render", coin, "ok", "done", <<>>)
    /\ UNCHANGED <<ohlcv, etl_logs, run, seen>>
    /\ Frame

\* _refresh_ohlc_30d: every exception ends in st.error
DashboardRefresh ==
    /\ ops < MaxOps
    /\ ops' = ops + 1
    /\ \E coin \in Coins, fetch \in Fetched(OhlcPayloads), storeFault \in BOOLEAN :
         IF fetch.raised \/ (fetch.data # <<>> /\ FrameRaises(fetch.data))
         THEN /\ last' = Outcome("refresh", coin, "error", "fetch", <<>>)
              /\ UNCHANGED <<ohlcv, etl_logs, seen>>
         ELSE IF fetch.data = <<>>
         THEN /\ last' = Outcome("refresh", coin, "no_data", "fetch", <<>>)
              /\ UNCHANGED <<ohlcv, etl_logs, seen>>
         ELSE LET data == OhlcFrame(fetch.data, coin, 0)
                  r == PurgeAndInsert(ohlcv, coin, data, storeFault)
              IN /\ ohlcv' = r.table
                 /\ IF r.raised
                    THEN /\ last' = Outcome("refresh", coin, "error", "store", data)
                         /\ UNCHANGED <<etl_logs, seen>>
                    ELSE /\ etl_logs' = insert_etl_log(etl_logs, coin, "success", Len(data))
                         /\ seen' = seen \cup Inserted(data)
                         /\ last' = Outcome("refresh", coin, "success", "done", data)
    /\ UNCHANGED <<anomalies, run>>
    /\ Frame

\* get_anomaly_summary / get_anomaly_trends: read the persisted events
AnomalyQuery ==
    /\ ops < MaxOps
    /\ ops' = ops + 1
    /\ \E coin \in Coins, op \in {"get_anomaly_summary", "get_anomaly_trends"} :
        last' = Outcome(op, coin, "ok", "read",
                        SelectSeq(anomalies, LAMBDA e : e.coin = coin))
    /\ UNCHANGED <<ohlcv, etl_logs, anomalies, run, seen>>
    /\ Frame

\* the limits of a direct call (tests/test_database.py); the dashboard asks
\* for DashboardLimit rows
QueryLimits == {0, 1, 2, DashboardLimit}

\* get_latest_data called on the store: a read, its result kept in last
LatestQuery ==
    /\ ops < MaxOps
    /\ ops' = ops + 1
    /\ \E coin \in Coins, limit \in QueryLimits :
        last' = Outcome("get_latest_data", coin, "ok", "read",
                        <<[limit |-> limit, rows |-> get_latest_data(ohlcv, coin, limit)]>>)
    /\ UNCHANGED <<ohlcv, etl_logs, anomalies, run, seen>>
    /\ Frame

-----------------------------------------------------------------------------
(* The system: the store and the programs that write it                    *)

Init ==
    /\ ohlcv = {}
    /\ etl_logs = <<>>
    /\ anomalies = <<>>
    /\ run = Idle
    /\ last = NoOutcome
    /\ seen = {}
    /\ ops = 0
    /\ df = <<>>
    /\ out = NoOutput

Next ==
    \/ DirectInsert
    \/ PipelineStart
    \/ PipelineCoin
    \/ StandardizeStart
    \/ StandardizeCoin
    \/ LoadStart
    \/ LoadCoin
    \/ DashboardRender
    \/ DashboardRefresh
    \/ AnomalyQuery
    \/ LatestQuery

Spec == Init /\ [][Next]_vars

-----------------------------------------------------------------------------
(* The detector applied to a table (specification SpecDetect)              *)

\* the coin the detector is called with
DetectCoin == SUPPORTED_COINS[1]

DetectInit ==
    /\ ohlcv = {}
    /\ etl_logs = <<>>
    /\ anomalies = <<>>
    /\ run = Idle
    /\ last = NoOutcome
    /\ seen = {}
    /\ ops = 0
    /\ df \in DetectTables
    /\ out = NoOutput

DetectFrame == UNCHANGED <<ohlcv, etl_logs, run, seen, df>>

\* one call of a detector on df: its insert_anomaly calls and the table returned
DetectStep(op, coin, res) ==
    /\ ops < MaxDetectRuns
    /\ out.op \in {"none", op}
    /\ ops' = ops + 1
    /\ anomalies' = insert_anomalies(anomalies, res.events)
    /\ out' = [op |-> op, coin |-> coin, volume |-> res.volume, price |-> res.price,
               volatility |-> res.volatility, any_anomaly |-> res.any_anomaly]
    /\ last' = Outcome(op, coin, "ok", "detect", <<>>)
    /\ DetectFrame

DetectVolume ==
    LET coin == DetectCoin IN
        LET d == detect_volume_anomalies(df, coin)
        IN DetectStep("detect_volume_anomalies", coin,
                      [volume |-> d, price |-> NoDetection, volatility |-> NoDetection,
                       any_anomaly |-> <<>>, events |-> d.events])

DetectPrice ==
    LET coin == DetectCoin IN
        LET d == detect_price_anomalies(df, coin)
        IN DetectStep("detect_price_anomalies", coin,
                      [volume |-> NoDetection, price |-> d, volatility |-> NoDetection,
                       any_anomaly |-> <<>>, events |-> d.events])

DetectVolatility ==
    LET coin == DetectCoin IN
        LET d == detect_volatility_spikes(df, coin, VolatilityWindow)
        IN DetectStep("detect_volatility_spikes", coin,
                      [volume |-> NoDetection, price |-> NoDetection, volatility |-> d,
                       any_anomaly |-> <<>>, events |-> d.events])

DetectAll ==
    LET coin == DetectCoin IN
        DetectStep("detect_all_anomalies", coin, detect_all_anomalies(df, coin))

DetectNext == DetectVolume \/ DetectPrice \/ DetectVolatility \/ DetectAll

SpecDetect == DetectInit /\ [][DetectNext]_vars

-----------------------------------------------------------------------------
(* One call of the API client (specifications SpecClient, SpecClientFair): *)
(* df is the script, out the call in progress.                             *)

ClientOut(op, call, health, clock) ==
    [op |-> op, call |-> call, health |-> health, clock |-> clock]

\* seconds a request takes to be answered (REQUEST_TIMEOUT bounds them)
Latencies == {0, 7}

\* the instance is new (last_request_time = 0), or it issued a request of
\* another endpoint this many seconds ago
EarlierRequests == {0, 3}

ClientClocks ==
    {Clock(Epoch, 0, <<>>)}
        \cup {Clock(Epoch, Epoch - d, <<Epoch - d>>) : d \in EarlierRequests}

ClientInit ==
    /\ ohlcv = {}
    /\ etl_logs = <<>>
    /\ anomalies = <<>>
    /\ run = Idle
    /\ last = NoOutcome
    /\ seen = {}
    /\ ops = 0
    /\ df \in Scripts
    /\ \E op \in {"make_request", "health_check"}, clock \in ClientClocks :
          out = ClientOut(op, NewCall(IF op = "health_check" THEN "ping" ELSE "coins/list"),
                          IF op = "health_check" THEN "pending" ELSE "none", clock)

ClientFrame == UNCHANGED <<ohlcv, etl_logs, anomalies, run, last, seen, ops, df>>

\* one pass of the retry loop
ClientAttempt ==
    /\ out.call.status = "running"
    /\ out.call.attempt < MAX_RETRIES
    /\ \E latency \in Latencies :
          LET next == Attempt(out.call, df[out.call.attempt + 1])
          IN out' = [out EXCEPT !.call = next,
                                !.clock = Sleep(SendRequest(@, latency),
                                                Slept(out.call, next))]
    /\ ClientFrame

\* the loop ran out of attempts
ClientExhausted ==
    /\ out.call.status = "running"
    /\ out.call.attempt >= MAX_RETRIES
    /\ out' = [out EXCEPT !.call = Exhausted(out.call)]
    /\ ClientFrame

\* health_check leaves its try block
ClientHealthReturn ==
    /\ out.op = "health_check"
    /\ out.health = "pending"
    /\ out.call.status \in {"returned", "raised"}
    /\ out' = [out EXCEPT !.health = HealthCheckResult(out.call)]
    /\ ClientFrame

ClientNext == ClientAttempt \/ ClientExhausted \/ ClientHealthReturn

SpecClient == ClientInit /\ [][ClientNext]_vars

\* the call runs in one thread that is not stopped from outside
SpecClientFair == SpecClient /\ WF_vars(ClientNext)

-----------------------------------------------------------------------------
(* One call of a function of the data processor (specification            *)
(* SpecProcess): df is the argument, out what the call produced.           *)

\* rows of one payload, points of one series, rows of one frame
MaxPayload == 3
MaxPoints == 2
MaxTicks == 3

Row5(t) == <<t, 10 + t, 30 + t, t, 20 + t>>

Row6(t, volume) == <<t, 10 + t, 30 + t, t, 20 + t, volume>>

\* rows an /ohlc body can carry: five or six elements, a null close, a null
\* volume, a row cut short and a row with elements in excess
PayloadRows ==
    {Row5(t) : t \in 1..3}
        \cup {Row6(t, v) : t \in 1..2, v \in {7, None}}
        \cup {<<3, 13, 33, 3, None>>, <<2, 12, 32, 2>>, <<1, 11, 31, 1, 21, 7, 0>>}

SeqsUpTo(S, n) == UNION {[1..k -> S] : k \in 0..n}

Points == {<<1, 10>>, <<2, 11>>, <<3, None>>}

VolumePoints == {<<1, 5>>, <<2, 6>>, <<4, 7>>}

\* market_chart bodies: with both series, without total_volumes, without prices
PriceData ==
    {[prices |-> p, total_volumes |-> v] :
        p \in SeqsUpTo(Points, MaxPoints), v \in SeqsUpTo(VolumePoints, MaxPoints)}
        \cup {[prices |-> p] : p \in SeqsUpTo(Points, MaxPoints)}
        \cup {[total_volumes |-> v] : v \in SeqsUpTo(VolumePoints, MaxPoints)}

\* instants (quarters of an hour) on and off the half-hour and hour boundaries
TickTimes == {0, 1, 2, 5}

\* a row of a frame [timestamp, close, volume]; volume NaN where the left merge
\* found no volume point
TickRows ==
    {[timestamp |-> Timestamp(t), close |-> p, volume |-> v] :
        t \in TickTimes, p \in {1, 3}, v \in {2, NaN}}

\* a candle row [timestamp, open, high, low, close, volume]
CandleRow(t, p, v) ==
    [timestamp |-> Timestamp(t), open |-> p, high |-> p + 2, low |-> p - 1,
     close |-> p + 1, volume |-> v]

CandleRows == {CandleRow(t, p, v) : t \in TickTimes, p \in {1, 3}, v \in {2, NaN}}

\* the rows an argument of the given kind is made of, and how many at most
ProcessRows(kind) ==
    IF kind = "ohlcv" THEN PayloadRows
    ELSE IF kind = "ticks" THEN TickRows ELSE CandleRows

ProcessLen(kind) == IF kind = "ohlcv" THEN MaxPayload ELSE MaxTicks

\* x is an argument of one of the functions: a payload, a market_chart body,
\* a frame of ticks or a frame of candles
ProcessInput(x) ==
    \/ \E kind \in {"ohlcv", "ticks", "candles"} :
          \E k \in 0..ProcessLen(kind) :
              \E a \in [1..k -> ProcessRows(kind)] : x = [kind |-> kind, arg |-> a]
    \/ \E a \in PriceData : x = [kind |-> "history", arg |-> a]

ProcessOut(op, freq, raised, rows) ==
    [op |-> op, freq |-> freq, raised |-> raised, rows |-> rows]

ProcessInit ==
    /\ ohlcv = {}
    /\ etl_logs = <<>>
    /\ anomalies = <<>>
    /\ run = Idle
    /\ last = NoOutcome
    /\ seen = {}
    /\ ops = 0
    /\ ProcessInput(df)
    /\ out = ProcessOut("none", 0, FALSE, <<>>)

ProcessFrame == UNCHANGED <<ohlcv, etl_logs, anomalies, run, last, seen, ops, df>>

ProcessCoin == SUPPORTED_COINS[1]

NormalizeOhlcv ==
    /\ df.kind = "ohlcv"
    /\ out.op = "none"
    /\ LET r == normalize_ohlcv_data(df.arg, ProcessCoin)
       IN out' = ProcessOut("normalize_ohlcv_data", 0, r.raised, r.rows)
    /\ ProcessFrame

NormalizeHistory ==
    /\ df.kind = "history"
    /\ out.op = "none"
    /\ out' = ProcessOut("normalize_price_history", 0, FALSE,
                         normalize_price_history(df.arg, ProcessCoin))
    /\ ProcessFrame

ResampleTo30min ==
    /\ df.kind = "ticks"
    /\ out.op = "none"
    /\ out' = ProcessOut("_resample_to_30min", HalfHour, FALSE, _resample_to_30min(df.arg))
    /\ ProcessFrame

ResampleData ==
    /\ df.kind = "candles"
    /\ out.op = "none"
    /\ \E freq \in {HalfHour, OneHour} :
          out' = ProcessOut("resample_data", freq, FALSE, resample_data(df.arg, freq))
    /\ ProcessFrame

ProcessNext == NormalizeOhlcv \/ NormalizeHistory \/ ResampleTo30min \/ ResampleData

SpecProcess == ProcessInit /\ [][ProcessNext]_vars

-----------------------------------------------------------------------------
(* Properties of the store and of the programs                             *)

RowsOf(table, coin) == {r \in table : r.coin = coin}

SeenTimestamps(coin) == {p[2] : p \in {q \in seen : q[1] = coin}}

StoreOps == {"insert_ohlcv_data", "pipeline_coin", "standardize_coin", "load_coin", "refresh"}

ReplaceOps == {"standardize_coin", "load_coin", "refresh"}

\* the last operation was an insert_ohlcv_data call that committed
CommittedInsert ==
    /\ last.op \in StoreOps
    /\ last.result \in {"ok", "success"}
    /\ last.data # <<>>

\* record i is the last of the batch with its (coin, timestamp)
LastOfKey(data, i) ==
    \A j \in (i + 1)..Len(data) :
        ~(data[j].coin = data[i].coin
            /\ TsToStr(data[j].timestamp) = TsToStr(data[i].timestamp))

\* C1: the candle table holds at most one row per (coin, timestamp); a committed
\* insert leaves, for every (coin, timestamp) of its batch, the row with the values
\* inserted last; the rows of a coin never outnumber the distinct timestamps
\* inserted for it.
C1_UpsertInvariant ==
    /\ \A r1, r2 \in ohlcv :
          (r1.coin = r2.coin /\ r1.timestamp = r2.timestamp) => r1 = r2
    /\ \A coin \in Coins :
          Cardinality(RowsOf(ohlcv, coin)) <= Cardinality(SeenTimestamps(coin))
    /\ CommittedInsert =>
          \A i \in 1..Len(last.data) :
              LastOfKey(last.data, i) =>
                  \E r \in ohlcv :
                      /\ r.coin = last.data[i].coin
                      /\ r.timestamp = TsToStr(last.data[i].timestamp)
                      /\ r.open = last.data[i].open /\ r.high = last.data[i].high
                      /\ r.low = last.data[i].low /\ r.close = last.data[i].close
                      /\ ("volume" \in DOMAIN last.data[i] /\ last.data[i].volume >= 0
                            => r.volume = last.data[i].volume)

\* C1 witness: after the pipeline stored the spike candles of bitcoin (timestamps
\* 1..MaxRows, open 2), a direct insert for timestamp 1 replaced that candle
C1_Witness ==
    /\ last.op = "insert_ohlcv_data" /\ last.result = "ok"
    /\ Cardinality(RowsOf(ohlcv, "bitcoin")) = MaxRows
    /\ \E r \in ohlcv : r.coin = "bitcoin" /\ r.timestamp = TsString("T", 1) /\ r.open = 4
    /\ \E i \in 1..Len(etl_logs) :
          etl_logs[i] = [coin |-> "bitcoin", status |-> "success",
                         records_processed |-> MaxRows]

\* a record insert_ohlcv_data cannot store: a key it reads is missing, or a
\* NOT NULL price column would be NULL
FailingRecord(rec) ==
    \/ {"coin", "timestamp", "open", "high", "low", "close"} \ DOMAIN rec # {}
    \/ \E k \in {"open", "high", "low", "close"} : rec[k] \in {None, NaN}

\* C2: an insert_ohlcv_data call whose batch holds a failing record raises, and
\* every call that raises leaves the candle table exactly as it was when the call
\* began (for a replace of a coin's history: the table after the purge).
C2_FailedBatchPersistsNothing ==
    [][ /\ (last'.op = "insert_ohlcv_data" /\ ops' = ops + 1)
            => /\ (\E i \in 1..Len(last'.data) : FailingRecord(last'.data[i]))
                      => last'.result = "raised"
               /\ last'.result = "raised" => ohlcv' = ohlcv
        /\ (last'.op = "pipeline_coin" /\ last'.stage = "store" /\ run.prog = "pipeline")
            => ohlcv' = ohlcv
        /\ (last'.op \in ReplaceOps /\ last'.stage = "store")
            => ohlcv' = DeleteCoin(ohlcv, last'.coin) ]_vars

\* C2 witness: a two-record batch raised on its second record, and the first
\* record, which could be stored, is not in the table
C2_Witness ==
    /\ last.op = "insert_ohlcv_data" /\ last.result = "raised"
    /\ Len(last.data) = 2
    /\ ~FailingRecord(last.data[1]) /\ FailingRecord(last.data[2])
    /\ \A r \in ohlcv : ~(r.coin = last.data[1].coin
                            /\ r.timestamp = TsToStr(last.data[1].timestamp))

\* C3 (as stated): a replace of a coin's history that fails in its insert step
\* leaves every candle the coin had before the replace in the table.
C3_FailedReplaceKeepsHistory ==
    [][ (last'.op \in ReplaceOps /\ last'.stage = "store" /\ last'.result = "error"
            /\ (run.prog \in {"standardize", "load"} \/ ops' = ops + 1))
        => RowsOf(ohlcv, last'.coin) \subseteq ohlcv' ]_vars

\* C4 (as stated): in a run over the coin list, a coin whose processing raised gets
\* one ETL log entry with status "error", and the run goes on with the next coin.
C4_ErrorEntryAndContinue ==
    [][ (run.prog \in {"pipeline", "standardize"}
            /\ last'.op \in {"pipeline_coin", "standardize_coin"}
            /\ last'.result \in {"error", "exit"})
        => /\ Len(etl_logs') = Len(etl_logs) + 1
           /\ IsPrefix(etl_logs, etl_logs')
           /\ etl_logs'[Len(etl_logs')].coin = last'.coin
           /\ etl_logs'[Len(etl_logs')].status = "error"
           /\ run' = NextCoin ]_vars

\* C5 (as stated): every ingestion or standardization run for a coin appends
\* exactly one ETL log entry for that coin, with status success or error.
C5_OneEntryPerCoinRun ==
    [][ (run.prog \in {"pipeline", "standardize"}
            /\ last'.op \in {"pipeline_coin", "standardize_coin"})
        => /\ Len(etl_logs') = Len(etl_logs) + 1
           /\ IsPrefix(etl_logs, etl_logs')
           /\ etl_logs'[Len(etl_logs')].coin = last'.coin
           /\ etl_logs'[Len(etl_logs')].status \in {"success", "error"} ]_vars

\* C7: ETL log entries and anomaly events are append-only: every step of every
\* operation leaves the entries persisted before it unchanged and in place.
C7_AppendOnly ==
    [][IsPrefix(etl_logs, etl_logs') /\ IsPrefix(anomalies, anomalies')]_vars

\* C7 witness: a replace of a coin's history committed and purged the candle an
\* anomaly event of that coin points to; the event and the log of the run that
\* wrote it are still there
C7_Witness ==
    /\ last.op \in ReplaceOps /\ last.result = "success"
    /\ Len(etl_logs) >= 2
    /\ \E k \in 1..Len(anomalies) :
          /\ anomalies[k].coin = last.coin
          /\ \A r \in ohlcv : ~(r.coin = last.coin
                                  /\ r.timestamp = anomalies[k].timestamp)

-----------------------------------------------------------------------------
(* Properties of the detector                                              *)

SingleDetectors ==
    {"detect_volume_anomalies", "detect_price_anomalies", "detect_volatility_spikes"}

\* the type, the columns and the row values of the detector that produced o
DetectorOf(o) ==
    IF o.op = "detect_volume_anomalies"
    THEN [type |-> "volume", d |-> o.volume,
          value |-> [i \in 1..Len(df) |-> df[i].volume]]
    ELSE IF o.op = "detect_price_anomalies"
    THEN [type |-> "price", d |-> o.price,
          value |-> [i \in 1..Len(df) |-> df[i].close]]
    ELSE [type |-> "volatility", d |-> o.volatility,
          value |-> [i \in 1..Len(df) |->
                        LET c == VolatilityColumn(df, VolatilityWindow)[i]
                        IN IF c.nan THEN NaN ELSE c.v]]

Flagged(d) == {i \in 1..Len(d.anomaly) : d.anomaly[i]}

\* C6: every persisted anomaly event has a type of volume, price or volatility,
\* a z-score whose absolute value exceeds the stored threshold, and as stored
\* threshold the volume threshold for type volume, the price threshold otherwise.
C6_PersistedAnomalyBeyondThreshold ==
    \A k \in 1..Len(anomalies) :
        LET e == anomalies[k]
            thr == IF e.anomaly_type = "volume" THEN VOLUME_ZSCORE_THRESHOLD
                   ELSE PRICE_ZSCORE_THRESHOLD
        IN /\ e.anomaly_type \in {"volume", "price", "volatility"}
           /\ e.threshold = thr
           /\ ~e.zscore.nan
           /\ thr.den * thr.den * e.zscore.num > thr.num * thr.num * e.zscore.den

\* C6 witness: one detect_all_anomalies run persisted events of all three types
C6_Witness ==
    /\ out.op = "detect_all_anomalies"
    /\ \A type \in {"volume", "price", "volatility"} :
          \E k \in 1..Len(anomalies) : anomalies[k].anomaly_type = type

\* C8: one run of a single detector appends exactly one event per row it flags and
\* none for another row; the event has the coin given to the detector, the row's
\* timestamp, the row's value and the row's z-score.
C8_OneEventPerFlaggedRow ==
    [][ out'.op \in SingleDetectors =>
          LET det == DetectorOf(out')
              new == SubSeq(anomalies', Len(anomalies) + 1, Len(anomalies'))
          IN /\ IsPrefix(anomalies, anomalies')
             /\ Len(new) = Cardinality(Flagged(det.d))
             /\ \A i \in Flagged(det.d) :
                   \E k \in 1..Len(new) :
                       /\ new[k].coin = out'.coin
                       /\ new[k].timestamp = TsToStr(df[i].timestamp)
                       /\ new[k].anomaly_type = det.type
                       /\ new[k].value = det.value[i]
                       /\ new[k].zscore = det.d.zscore[i] ]_vars

\* C8 witness: detect_volume_anomalies ran once over a table of several rows with
\* a single volume outlier, held by another coin's table, and left one event
C8_Witness ==
    /\ out.op = "detect_volume_anomalies" /\ ops = 1
    /\ Len(df) > 1 /\ df[1].coin # out.coin
    /\ Cardinality(Flagged(out.volume)) = 1
    /\ Len(anomalies) = 1
    /\ anomalies[1].anomaly_type = "volume" /\ anomalies[1].value = VolSpike

\* the (row, type) pairs a detect_all_anomalies result flags
FlaggedPairs(o) ==
    Cardinality(Flagged(o.volume)) + Cardinality(Flagged(o.price))
        + Cardinality(Flagged(o.volatility))

\* C9: after k runs of detect_all_anomalies over the same table, which flags n
\* (row, type) pairs, there are k * n events: every run repeats the events of the
\* first one.
C9_DetectionNotIdempotent ==
    out.op = "detect_all_anomalies" =>
        LET n == FlaggedPairs(out)
        IN /\ Len(anomalies) = ops * n
           /\ \A k \in 1..Len(anomalies) : k > n => anomalies[k] = anomalies[k - n]

\* C9 witness: two runs over a table with flagged rows left every event twice
C9_Witness ==
    /\ out.op = "detect_all_anomalies" /\ ops = 2
    /\ FlaggedPairs(out) >= 1
    /\ Len(anomalies) = 2 * FlaggedPairs(out)
    /\ anomalies[1] = anomalies[1 + FlaggedPairs(out)]

\* every row has the same close and the same (defined) volume
ConstantSeries(table) ==
    /\ Len(table) >= 1
    /\ \A i \in 1..Len(table) :
          /\ table[i].volume = table[1].volume /\ table[i].volume # NaN
          /\ table[i].close = table[1].close

AllEqual(column, n, x) == column = [i \in 1..n |-> x]

-----------------------------------------------------------------------------
(* Properties of the API client                                            *)

Finished(call) == call.status \in {"returned", "raised"}

\* response i of the script is a 200 whose body parses
Succeeds(script, i) == script[i].status = 200 /\ script[i].json = "ok"

\* C11: a _make_request call issues at most MAX_RETRIES requests and comes to an
\* end; it ends either returning the body of the 200 response it got last or
\* raising, never both, stays ended, and raises when no attempt succeeded.
C11_RequestTerminates ==
    /\ [](out.call.requests <= MAX_RETRIES)
    /\ <>Finished(out.call)
    /\ [](out.call.status = "returned" =>
            /\ out.call.requests >= 1
            /\ Succeeds(df, out.call.requests)
            /\ out.call.body = df[out.call.requests].body
            /\ out.call.exc = "")
    /\ [](out.call.status = "raised" => out.call.body = "" /\ out.call.exc # "")
    /\ []((Finished(out.call) /\ \A i \in 1..out.call.requests : ~Succeeds(df, i))
            => out.call.status = "raised")
    /\ [][Finished(out.call) => out'.call = out.call]_vars

\* C11 witness: MAX_RETRIES answers 429 in a row, then the call raised
C11_Witness ==
    /\ out.op = "make_request"
    /\ \A i \in 1..MAX_RETRIES : df[i].status = 429
    /\ out.call.status = "raised" /\ out.call.requests = MAX_RETRIES

\* C12 (as stated): a request is issued again only after a 429 or a network error;
\* any other status than 200 ends the call with an error after that request.
C12_RetryOnlyTransient ==
    [][ (out.call.status = "running" /\ out.call.attempt < MAX_RETRIES)
        => LET r == df[out.call.attempt + 1]
               again == out'.call.status = "running" /\ out'.call.attempt < MAX_RETRIES
           IN /\ again => (r.status = 429 \/ r.exc = "ConnectionError")
              /\ (r.exc = "" /\ r.status \notin {200, 429})
                    => (out'.call.status = "raised" /\ out'.call.requests = 1) ]_vars

\* C14: health_check ends with True exactly when the ping request got a 200 whose
\* body parses, with False in every other case, and never with an exception.
C14_HealthCheckNeverRaises ==
    (out.op = "health_check" /\ out.health # "pending") =>
        /\ out.health \in {"true", "false"}
        /\ out.health = "true" <=>
              (out.call.requests >= 1 /\ Succeeds(df, out.call.requests))

\* C14 witness: session.get raised an exception that is no RequestException on the
\* first request, and health_check returned False
C14_Witness ==
    /\ out.op = "health_check" /\ out.health = "false"
    /\ out.call.exc = "Exception" /\ out.call.requests = 1

-----------------------------------------------------------------------------
(* Properties of the pipeline's startup                                     *)

\* a step of main up to the coin loop
StartupStep == last'.op = "main" /\ ops' = ops + 1

\* C13: when the required API key is missing, main exits non-zero before the
\* store is opened and before any API request (the health check's included)
\* is issued, no coin is processed, and no candle, ETL log entry or anomaly
\* event is written by the run
C13_MissingKeyAbortsFirst ==
    [][ (StartupStep /\ ~last'.data[1].key) =>
            /\ last'.result = "exit"
            /\ ~last'.data[1].opened
            /\ last'.data[1].requests = 0
            /\ run' = Idle
            /\ ohlcv' = ohlcv
            /\ etl_logs' = etl_logs
            /\ anomalies' = anomalies ]_vars

\* a run without the key that exited, started over a store that already
\* holds candles of an earlier operation
C13_Witness ==
    /\ last.op = "main"
    /\ ~last.data[1].key
    /\ last.result = "exit"
    /\ run = Idle
    /\ ops = MaxOps
    /\ ohlcv # {}

-----------------------------------------------------------------------------
(* Properties of the data processor                                        *)

\* C15: normalize_ohlcv_data returns an empty table and raises nothing for
\* every payload holding a row whose length is neither 5 nor 6, wherever the
\* row stands; for a payload of length-5 rows every emitted row has volume
\* NaN, for a payload of length-6 rows every emitted row has the given volume
C15_BadRowLengthEmpty ==
    out.op = "normalize_ohlcv_data" =>
        LET payload == df.arg
            n == Len(payload)
        IN /\ (\E i \in 1..n : Len(payload[i]) \notin {5, 6}) =>
                  (~out.raised /\ out.rows = <<>>)
           /\ (\A i \in 1..n : Len(payload[i]) = 5) =>
                  \A k \in 1..Len(out.rows) : out.rows[k].volume = NaN
           /\ (\A i \in 1..n : Len(payload[i]) = 6) =>
                  \A k \in 1..Len(out.rows) :
                      \E i \in 1..n :
                          /\ out.rows[k].timestamp.t = payload[i][1]
                          /\ out.rows[k].volume =
                                 (IF payload[i][6] = None THEN NaN ELSE payload[i][6])

\* every row of the payload has five elements, or every row has six
WellFormed(payload) ==
    \/ \A i \in 1..Len(payload) : Len(payload[i]) = 5
    \/ \A i \in 1..Len(payload) : Len(payload[i]) = 6

\* open, high, low and close of a payload row are numbers
NumericPrices(row) == \A k \in 2..5 : row[k] # None

\* the table row a payload row stands for
RowOf(row, coin) ==
    [coin |-> coin, timestamp |-> Timestamp(row[1]),
     open |-> row[2], high |-> row[3], low |-> row[4], close |-> row[5],
     volume |-> IF Len(row) = 5 THEN NaN
                ELSE IF row[6] = None THEN NaN ELSE row[6]]

\* C16: for a well-formed payload in any order normalize_ohlcv_data emits
\* exactly the rows whose open, high, low and close are numeric (each as often
\* as the payload holds it, whether or not it has a volume), tagged with the
\* coin, in ascending timestamp order
C16_EmitsNumericRowsSorted ==
    (out.op = "normalize_ohlcv_data" /\ WellFormed(df.arg)) =>
        LET payload == df.arg
            numeric == {i \in 1..Len(payload) : NumericPrices(payload[i])}
            emitted == 1..Len(out.rows)
        IN /\ ~out.raised
           /\ \A i \in numeric :
                  Cardinality({j \in numeric :
                                  RowOf(payload[j], ProcessCoin) = RowOf(payload[i], ProcessCoin)})
                    = Cardinality({k \in emitted :
                                      out.rows[k] = RowOf(payload[i], ProcessCoin)})
           /\ Len(out.rows) = Cardinality(numeric)
           /\ \A k \in emitted : out.rows[k].coin = ProcessCoin
           /\ \A k \in emitted :
                  k < Len(out.rows) =>
                      out.rows[k].timestamp.t <= out.rows[k + 1].timestamp.t

\* a payload given latest first with a null close in the middle: the two rows
\* with prices are emitted earliest first, without a volume
C16_Witness ==
    /\ out.op = "normalize_ohlcv_data"
    /\ df.arg = <<Row5(2), <<3, 13, 33, 3, None>>, Row5(1)>>
    /\ Len(out.rows) = 2
    /\ out.rows[1].timestamp.t = 1
    /\ out.rows[2].volume = NaN

-----------------------------------------------------------------------------
(* Properties of the persisted volume                                      *)

\* the record handed to insert_ohlcv_data carries no volume
VolumeMissing(record) ==
    "volume" \notin DOMAIN record \/ record.volume = None \/ record.volume = NaN

\* C17: every persisted candle has a numeric, non-null volume; a candle
\* handed to insert_ohlcv_data without a volume, or with volume None or NaN,
\* is persisted with volume 0, its coin, timestamp, open, high, low and close
\* being those of the record
C17_VolumePersistedNumeric ==
    /\ \A r \in ohlcv : r.volume \in Nat
    /\ CommittedInsert =>
          \A i \in 1..Len(last.data) :
              (LastOfKey(last.data, i) /\ VolumeMissing(last.data[i])) =>
                  \E r \in ohlcv :
                      /\ r.coin = last.data[i].coin
                      /\ r.timestamp = TsToStr(last.data[i].timestamp)
                      /\ r.open = last.data[i].open /\ r.high = last.data[i].high
                      /\ r.low = last.data[i].low /\ r.close = last.data[i].close
                      /\ r.volume = 0

\* a pipeline run stored the candles normalized from five-element rows, whose
\* volume is NaN, with volume 0
C17_Witness ==
    /\ last.op = "pipeline_coin"
    /\ CommittedInsert
    /\ \E i \in 1..Len(last.data) :
          /\ last.data[i].volume = NaN
          /\ \E r \in ohlcv :
                /\ r.coin = last.data[i].coin
                /\ r.timestamp = TsToStr(last.data[i].timestamp)
                /\ r.close = last.data[i].close
                /\ r.volume = 0

-----------------------------------------------------------------------------
(* Properties of the price history normalizer                              *)

\* C18: normalize_price_history joins price and volume points on equal
\* timestamps; a price point with a numeric price is emitted with the volume
\* of the volume point at its timestamp, and with volume NaN when there is
\* none: it is not dropped because its volume is unmatched or because the two
\* series differ in length
C18_UnmatchedPriceKept ==
    (out.op = "normalize_price_history" /\ "prices" \in DOMAIN df.arg) =>
        LET prices == df.arg.prices
            volumes == IF "total_volumes" \in DOMAIN df.arg
                       THEN df.arg.total_volumes ELSE <<>>
        IN \A i \in 1..Len(prices) :
              prices[i][2] # None =>
                  \E k \in 1..Len(out.rows) :
                      /\ out.rows[k].timestamp.t = prices[i][1]
                      /\ out.rows[k].price = prices[i][2]
                      /\ \/ \E j \in 1..Len(volumes) :
                               /\ volumes[j][1] = prices[i][1]
                               /\ out.rows[k].volume = volumes[j][2]
                         \/ /\ \A j \in 1..Len(volumes) : volumes[j][1] # prices[i][1]
                            /\ out.rows[k].volume = NaN

-----------------------------------------------------------------------------
(* Properties of the resamplers                                            *)

ResampleOps == {"_resample_to_30min", "resample_data"}

\* the rows the resampler aggregates: for _resample_to_30min open, high and
\* low are the tick's price
ResampleInput ==
    IF df.kind = "ticks"
    THEN [i \in 1..Len(df.arg) |->
             [t |-> df.arg[i].timestamp.t, open |-> df.arg[i].close,
              high |-> df.arg[i].close, low |-> df.arg[i].close,
              close |-> df.arg[i].close, volume |-> df.arg[i].volume]]
    ELSE [i \in 1..Len(df.arg) |->
             [t |-> df.arg[i].timestamp.t, open |-> df.arg[i].open,
              high |-> df.arg[i].high, low |-> df.arg[i].low,
              close |-> df.arg[i].close, volume |-> df.arg[i].volume]]

\* the positions of the rows that fall into the bucket of the candle at t,
\* the bucket being the one the candle's timestamp opens
InBucket(rows, t, freq) ==
    {i \in 1..Len(rows) : t <= rows[i].t /\ rows[i].t < t + freq}

\* the sum of the volumes of the rows at the positions I that carry one
RECURSIVE VolumeSum(_, _)
VolumeSum(rows, I) ==
    IF I = {} THEN 0
    ELSE LET i == CHOOSE j \in I : TRUE
         IN (IF rows[i].volume = NaN THEN 0 ELSE rows[i].volume)
                + VolumeSum(rows, I \ {i})

\* C19: for every bucket holding at least one tick the resampler emits one
\* candle with open = the price of the earliest tick of the bucket, high = the
\* maximum, low = the minimum, close = the price of the latest tick, volume =
\* the sum of the ticks' volumes; low <= open, close <= high for ticks; a
\* bucket without tick yields no candle
C19_BucketAggregation ==
    out.op \in ResampleOps =>
        LET rows == ResampleInput
            freq == out.freq
            candles == out.rows
        IN /\ \A i \in 1..Len(rows) :
                  Cardinality({k \in 1..Len(candles) :
                                  i \in InBucket(rows, candles[k].timestamp.t, freq)}) = 1
           /\ \A k \in 1..Len(candles) :
                  LET I == InBucket(rows, candles[k].timestamp.t, freq)
                      c == candles[k]
                  IN /\ I # {}
                     /\ c.timestamp.t % freq = 0
                     /\ \E i \in I : /\ \A j \in I : rows[i].t <= rows[j].t
                                     /\ c.open = rows[i].open
                     /\ \E i \in I : /\ \A j \in I : rows[j].t <= rows[i].t
                                     /\ c.close = rows[i].close
                     /\ \E i \in I : c.high = rows[i].high
                     /\ \A i \in I : rows[i].high <= c.high
                     /\ \E i \in I : c.low = rows[i].low
                     /\ \A i \in I : c.low <= rows[i].low
                     /\ c.volume = VolumeSum(rows, I)
                     /\ df.kind = "ticks" =>
                            /\ c.low <= c.open /\ c.open <= c.high
                            /\ c.low <= c.close /\ c.close <= c.high
           /\ \A k1, k2 \in 1..Len(candles) :
                  k1 < k2 => candles[k1].timestamp.t < candles[k2].timestamp.t

\* three ticks given out of order, two of them in the first half hour and
\* none in the second: one candle for the first half hour that opens at the
\* earlier tick's price and closes at the later one's, one for the third
C19_Witness ==
    /\ out.op = "_resample_to_30min"
    /\ df.arg = <<[timestamp |-> Timestamp(5), close |-> 1, volume |-> 2],
                  [timestamp |-> Timestamp(1), close |-> 1, volume |-> 2],
                  [timestamp |-> Timestamp(0), close |-> 3, volume |-> 2]>>
    /\ Len(out.rows) = 2
    /\ out.rows[1].open = 3 /\ out.rows[1].close = 1
    /\ out.rows[1].high = 3 /\ out.rows[1].low = 1
    /\ out.rows[1].volume = 4

\* C20: the buckets are right-closed and right-labelled: a tick at time t is
\* aggregated into the candle whose timestamp is the smallest bucket boundary
\* >= t, so that every candle is labelled with the closing instant of its
\* bucket and holds the ticks of the interval that ends there
C20_RightClosedRightLabelled ==
    out.op \in ResampleOps =>
        LET rows == ResampleInput
            freq == out.freq
            candles == out.rows
            Closing(b) == {i \in 1..Len(rows) : LabelRight(rows[i].t, freq) = b}
        IN /\ \A i \in 1..Len(rows) :
                  \E k \in 1..Len(candles) :
                      candles[k].timestamp.t = LabelRight(rows[i].t, freq)
           /\ \A k \in 1..Len(candles) :
                  /\ Closing(candles[k].timestamp.t) # {}
                  /\ candles[k].volume = VolumeSum(rows, Closing(candles[k].timestamp.t))

-----------------------------------------------------------------------------
(* Properties of the client's timing                                       *)

\* C26: between two consecutive requests of one client instance, re-issues of
\* a retried request and requests of different endpoints included, at least
\* 60 / API_RATE_LIMIT seconds elapse
C26_RequestsSpaced ==
    \A i \in 1..Len(out.clock.sent) :
        i < Len(out.clock.sent) =>
            out.clock.sent[i + 1] - out.clock.sent[i] >= 60 \div API_RATE_LIMIT

\* an instance that issued a request of another endpoint three seconds before
\* the call, whose first request was answered at once by a 204 and re-issued
\* without a backoff sleep: three requests, each six seconds after the other
C26_Witness ==
    /\ Len(out.clock.sent) = 3
    /\ out.clock.sent[1] = Epoch - 3
    /\ df[1].status = 204
    /\ out.clock.sent[2] = out.clock.sent[1] + 6
    /\ out.clock.sent[3] = out.clock.sent[2] + 6

\* the response is a 429 or session.get raised a network error
Transient(r) == r.status = 429 \/ r.exc = "ConnectionError"

\* C27: after the k-th failed attempt (k = 0, 1, ...) the client waits
\* RETRY_DELAY * 2^k seconds before it issues the request for the same
\* endpoint again, for a 429 and for a network error alike; after the last
\* allowed attempt failed it raises and issues no further request
C27_ExponentialBackoff ==
    [][ /\ (out.call.status = "running" /\ out.call.attempt < MAX_RETRIES
              /\ Transient(df[out.call.attempt + 1])) =>
            LET k == out.call.attempt
            IN IF k < MAX_RETRIES - 1
               THEN /\ out'.call.status = "running"
                    /\ out'.call.attempt = k + 1
                    /\ out'.call.endpoint = out.call.endpoint
                    /\ out'.call.sleeps = Append(out.call.sleeps, RETRY_DELAY * 2^k)
                    /\ out'.clock.now >=
                          out'.clock.sent[Len(out'.clock.sent)] + RETRY_DELAY * 2^k
               ELSE /\ out'.call.requests = MAX_RETRIES
                    /\ \/ out'.call.status = "raised"
                       \/ out'.call.status = "running" /\ out'.call.attempt = MAX_RETRIES
        /\ (out.call.status = "running" /\ out.call.attempt >= MAX_RETRIES) =>
            /\ out'.call.status = "raised"
            /\ out'.call.requests = out.call.requests
            /\ out'.clock.sent = out.clock.sent
        /\ out.call.status = "raised" => out'.clock.sent = out.clock.sent ]_vars

\* a 429, then a network error, then a 429: sleeps of 1, 2 and 4 seconds, three
\* requests, and the call raised
C27_Witness ==
    /\ df[1].status = 429 /\ df[2].exc = "ConnectionError" /\ df[3].status = 429
    /\ out.call.sleeps = <<1, 2, 4>>
    /\ out.call.requests = MAX_RETRIES
    /\ out.call.status = "raised"

-----------------------------------------------------------------------------
(* Properties of the candle query                                          *)

\* C24: get_latest_data(coin, limit) returns min(limit, number of stored
\* candles of the coin) candles, all of that coin, from the most recent
\* timestamp to older ones: its first element is the coin's latest candle and
\* no omitted candle is more recent than a returned one, whatever the order
\* in which the candles were inserted
C24_LatestFirst ==
    last.op = "get_latest_data" =>
        LET rows == last.data[1].rows
            limit == last.data[1].limit
            stored == RowsOf(ohlcv, last.coin)
            n == Cardinality(stored)
            returned == {rows[k] : k \in 1..Len(rows)}
        IN /\ Len(rows) = (IF limit < n THEN limit ELSE n)
           /\ returned \subseteq stored
           /\ Cardinality(returned) = Len(rows)
           /\ \A k \in 1..Len(rows) :
                  k < Len(rows) => rows[k].timestamp.t >= rows[k + 1].timestamp.t
           /\ \A r \in stored \ returned, q \in returned :
                  r.timestamp.t <= q.timestamp.t
           /\ (limit > 0 /\ n > 0) =>
                  \A r \in stored : r.timestamp.t <= rows[1].timestamp.t

\* bitcoin's candle of timestamp 3 was inserted before the one of timestamp 1;
\* the query for one candle returns the one of timestamp 3
C24_Witness ==
    /\ last.op = "get_latest_data" /\ last.coin = "bitcoin"
    /\ last.data[1].limit = 1
    /\ Cardinality(RowsOf(ohlcv, "bitcoin")) = 2
    /\ Len(last.data[1].rows) = 1
    /\ last.data[1].rows[1].timestamp.t = 3


-----------------------------------------------------------------------------
(* Properties of the order of writes in a pipeline pass                    *)

\* the event lists one pass of the coin loop can hand to insert_anomaly
PassEvents(coin) ==
    { detect_all_anomalies(normalize_ohlcv_data(d, coin).rows, coin).events :
        d \in {p \in OhlcPayloads : /\ p # <<>>
                                    /\ ~normalize_ohlcv_data(p, coin).raised
                                    /\ normalize_ohlcv_data(p, coin).rows # <<>>} }

\* C29 (as stated): in a coin's pipeline pass the anomaly events are written,
\* each committed, before the candles; when the candle write then fails the
\* events of the pass stay persisted, no candle of the pass is stored, and the
\* pass is logged with status "error".
C29_EventsOutliveFailedCandleWrite ==
    [][ (run.prog = "pipeline" /\ last'.op = "pipeline_coin" /\ last'.stage = "store")
        => /\ \E events \in PassEvents(last'.coin) : anomalies' = anomalies \o events
           /\ ohlcv' = ohlcv
           /\ Len(etl_logs') = Len(etl_logs) + 1
           /\ etl_logs'[Len(etl_logs')].coin = last'.coin
           /\ etl_logs'[Len(etl_logs')].status = "error" ]_vars


-----------------------------------------------------------------------------
(* The rebuild window of the standardizer (specification SpecStandardize). *)
(* df is the upstream tick history, which stays as it is; out holds the    *)
(* clock and the candles one complete run leaves.                          *)

\* seconds between the instants t and t + 1 of the model (15 minutes)
TickSeconds == 900

\* int(pd.to_datetime(earliest_iso).timestamp())
EpochSeconds(ts_value) == ToDatetime(ts_value).t * TickSeconds

\* SELECT MIN(timestamp) AS earliest FROM ohlcv WHERE coin = ?: the least
\* timestamp string, or no value (NULL) when the coin has no row
EarliestStored(table, coin) ==
    LET asc == SortByText({r \in table : r.coin = coin})
    IN IF asc = <<>> THEN <<>> ELSE <<asc[1].timestamp>>

chunk_seconds == 7 * 24 * 3600

\* math.ceil(a / b) for b > 0
Ceil(a, b) == -((-a) \div b)

Chunk(start, end) == [start |-> start, end |-> end]

\* faulty variant: the number of chunks rounded down
ChunksRoundedDown(earliest_ts, latest_ts) ==
    LET c == (latest_ts - earliest_ts) \div chunk_seconds
        chunks == IF c = 0 THEN 1 ELSE c
        all == [i \in 1..chunks |->
                   Chunk(earliest_ts + (i - 1) * chunk_seconds,
                         IF earliest_ts + i * chunk_seconds < latest_ts
                         THEN earliest_ts + i * chunk_seconds ELSE latest_ts)]
    IN SelectSeq(all, LAMBDA k : k.start < k.end)

\* the loop over range(chunks): chunks = math.ceil(...) or 1, a negative range
\* is empty, end = min(..., latest_ts), and start >= end is skipped
Chunks(earliest_ts, latest_ts) ==
    LET c == Ceil(latest_ts - earliest_ts, chunk_seconds)
        chunks == IF c = 0 THEN 1 ELSE c
        all == [i \in 1..chunks |->
                   Chunk(earliest_ts + (i - 1) * chunk_seconds,
                         IF earliest_ts + i * chunk_seconds < latest_ts
                         THEN earliest_ts + i * chunk_seconds ELSE latest_ts)]
    IN SelectSeq(all, LAMBDA k : k.start < k.end)

\* market_chart/range: the upstream's points with from_ts <= t <= to_ts
get_coin_price_history_range(upstream, from_ts, to_ts) ==
    SelectSeq(upstream, LAMBDA k : /\ from_ts <= k.t * TickSeconds
                                   /\ k.t * TickSeconds <= to_ts)

RECURSIVE ConcatParts(_, _)
\* pd.concat(all_parts, ignore_index=True)
ConcatParts(parts, k) ==
    IF k = 0 THEN <<>> ELSE ConcatParts(parts, k - 1) \o parts[k]

RECURSIVE DropDuplicates(_)
\* drop_duplicates(subset=["timestamp"]): the first row of a timestamp is kept
DropDuplicates(rows) ==
    IF rows = <<>> THEN <<>>
    ELSE LET init == DropDuplicates(SubSeq(rows, 1, Len(rows) - 1))
             r == rows[Len(rows)]
         IN IF \E i \in 1..Len(init) : init[i].t = r.t THEN init ELSE Append(init, r)

RECURSIVE SortTicks(_)
\* sort_values("timestamp") of rows with distinct timestamps
SortTicks(rows) ==
    IF rows = {} THEN <<>>
    ELSE LET m == CHOOSE r \in rows : \A q \in rows : r.t <= q.t
         IN <<m>> \o SortTicks(rows \ {m})

\* the window and the requests of one call; now and lag seconds later are the
\* two readings of the clock
StandardizeWindow(table, coin, now, lag) ==
    LET earliest_iso == EarliestStored(table, coin)
        earliest_ts == IF earliest_iso # <<>> THEN EpochSeconds(earliest_iso[1])
                       ELSE now - 7 * 24 * 3600
        latest_ts == now + lag
    IN [earliest_ts |-> earliest_ts, latest_ts |-> latest_ts,
        planned |-> Chunks(earliest_ts, latest_ts)]

\* standardize_coin; fetchFault = k > 0: the request of the k-th chunk raises;
\* storeFault: the insert raises
standardize_coin(table, upstream, coin, now, lag, fetchFault, storeFault) ==
    LET w == StandardizeWindow(table, coin, now, lag)
        n == Len(w.planned)
        raisedAt == IF fetchFault \in 1..n THEN fetchFault ELSE 0
        fetched == IF raisedAt > 0 THEN SubSeq(w.planned, 1, raisedAt) ELSE w.planned
        parts == [i \in 1..n |->
                     get_coin_price_history_range(upstream, w.planned[i].start,
                                                  w.planned[i].end)]
        all_parts == SelectSeq(parts, LAMBDA part : part # <<>>)
        ticks == SortTicks(Range(DropDuplicates(ConcatParts(all_parts, Len(all_parts)))))
        df_30 == build_ohlcv_from_ticks(ticks, coin)
        r == insert_ohlcv_data(DeleteCoin(table, coin), df_30, storeFault)
        call == [now |-> now, earliest_ts |-> w.earliest_ts, latest_ts |-> w.latest_ts,
                 planned |-> w.planned, fetched |-> fetched]
    IN  IF raisedAt > 0
        THEN [result |-> "error", stage |-> "fetch", table |-> table, logged |-> FALSE,
              rowcount |-> 0, call |-> call]
        ELSE IF all_parts = <<>>
        THEN [result |-> "no_data", stage |-> "fetch", table |-> table, logged |-> FALSE,
              rowcount |-> 0, call |-> call]
        ELSE IF r.raised
        THEN [result |-> "error", stage |-> "store", table |-> r.table, logged |-> FALSE,
              rowcount |-> 0, call |-> call]
        ELSE [result |-> "success", stage |-> "done", table |-> r.table, logged |-> TRUE,
              rowcount |-> r.rowcount, call |-> call]

\* calls of standardize_coin in one behaviour
MaxStandardizeRuns == 2

StandardizeCoinName == SUPPORTED_COINS[1]

\* tick histories of the upstream, ascending in time
TickHistories ==
    { <<>>,
      <<Tick(1, 2, 10), Tick(2, 4, 10), Tick(3, 1, 10)>>,
      <<Tick(3, 2, 5), Tick(4, 2, 5), Tick(6, 1, 5)>>,
      <<Tick(3, 2, 5), Tick(673, 4, 5), Tick(680, 1, 5)>>,
      <<Tick(2, 2, 5), Tick(1345, 4, 5), Tick(1346, 1, 5)>> }

\* the clock at the first call, in seconds
StandardizeClocks == {7 * TickSeconds, 1346 * TickSeconds, 1346 * TickSeconds + 450}

\* seconds between two calls
Elapsed == {0, 1, TickSeconds}

\* candles the pipeline stored before the first call
StoredBefore == {PayloadShort, PayloadSpike}

StandardizeInit ==
    /\ ohlcv = {}
    /\ etl_logs = <<>>
    /\ anomalies = <<>>
    /\ run = Idle
    /\ last = NoOutcome
    /\ seen = {}
    /\ ops = 0
    /\ df \in TickHistories
    /\ \E now \in StandardizeClocks :
          /\ \A i \in 1..Len(df) : df[i].t * TickSeconds <= now
          /\ out = [now |-> now, reference |-> {}]

\* the pipeline stored candles of the coin before the first call
StandardizeIngest ==
    /\ ops = 0
    /\ ohlcv = {}
    /\ \E p \in StoredBefore :
          ohlcv' = insert_ohlcv_data(ohlcv, normalize_ohlcv_data(p, StandardizeCoinName).rows,
                                     FALSE).table
    /\ UNCHANGED <<etl_logs, anomalies, run, last, seen, ops, df, out>>

\* one call of standardize_coin; reference keeps the candles that one complete
\* call at the time of the first call leaves
StandardizeRun ==
    /\ ops < MaxStandardizeRuns
    /\ ops' = ops + 1
    /\ \E elapsed \in Elapsed, lag \in {0, 1}, fetchFault \in 0..2, storeFault \in BOOLEAN :
        LET coin == StandardizeCoinName
            now == IF ops = 0 THEN out.now ELSE out.now + elapsed
            r == standardize_coin(ohlcv, df, coin, now, lag, fetchFault, storeFault)
            complete == standardize_coin(ohlcv, df, coin, now, lag, 0, FALSE)
        IN /\ ohlcv' = r.table
           /\ etl_logs' = IF r.logged
                          THEN insert_etl_log(etl_logs, coin, "success", r.rowcount)
                          ELSE etl_logs
           /\ last' = Outcome("standardize_coin", coin, r.result, r.stage, <<r.call>>)
           /\ out' = [now |-> now + lag,
                      reference |-> IF ops = 0
                                    THEN {c \in complete.table : c.coin = coin}
                                    ELSE out.reference]
    /\ UNCHANGED <<anomalies, run, seen, df>>

StandardizeNext == StandardizeIngest \/ StandardizeRun

SpecStandardize == StandardizeInit /\ [][StandardizeNext]_vars

-----------------------------------------------------------------------------
(* Properties of the standardizer                                          *)

\* the least instant among the coin's stored candles, in seconds
EarliestInstant(table, coin) ==
    LET ts == {r.timestamp.t : r \in {q \in table : q.coin = coin}}
    IN (CHOOSE t \in ts : \A u \in ts : t <= u) * TickSeconds

\* C28: the window of a call starts at the coin's earliest stored candle, or 7
\* days before the call when the coin has none, and ends at the time of the call;
\* the requests cover it in consecutive chunks of at most 7 days, none empty,
\* none outside the window, each requested once (up to the one that raised).
C28_ChunksCoverWindow ==
    [][ (last'.op = "standardize_coin" /\ ops' = ops + 1) =>
        LET c == last'.data[1]
            n == Len(c.planned)
            stored == {r \in ohlcv : r.coin = last'.coin}
        IN /\ c.earliest_ts = IF stored = {} THEN c.now - 7 * 24 * 3600
                              ELSE EarliestInstant(ohlcv, last'.coin)
           /\ c.latest_ts \in {c.now, c.now + 1}
           /\ (c.earliest_ts < c.latest_ts) =>
                 /\ n >= 1
                 /\ c.planned[1].start = c.earliest_ts
                 /\ c.planned[n].end = c.latest_ts
           /\ (c.earliest_ts >= c.latest_ts) => n = 0
           /\ \A i \in 1..n :
                 /\ c.planned[i].start < c.planned[i].end
                 /\ c.planned[i].end - c.planned[i].start <= 7 * 24 * 3600
                 /\ i < n => c.planned[i + 1].start = c.planned[i].end
           /\ IsPrefix(c.fetched, c.planned)
           /\ last'.stage # "fetch" \/ last'.result # "error" => c.fetched = c.planned ]_vars

\* a call for a coin whose earliest stored candle is more than 14 days old: the
\* window took three requests, the last one shorter than 7 days
C28_Witness ==
    /\ last.op = "standardize_coin"
    /\ Len(last.data[1].fetched) = 3
    /\ last.data[1].earliest_ts = TickSeconds
    /\ last.data[1].fetched[3].end - last.data[1].fetched[3].start < 7 * 24 * 3600

\* C21 (as stated): with the upstream tick history unchanged, a further call of
\* standardize_coin, also after a call that deleted the coin's candles and then
\* failed to insert, leaves the candles one complete call leaves.
C21_RerunIdempotent ==
    (last.op = "standardize_coin" /\ ops >= 2 /\ last.result \in {"success", "no_data"})
        => {r \in ohlcv : r.coin = last.coin} = out.reference


-----------------------------------------------------------------------------
(* Two writers of one coin without coordination (specification             *)
(* SpecWriters).  Each writer is a process that runs its transactions one  *)
(* statement at a time; SQLite gives the database to one writing           *)
(* transaction at a time.  df is the store before the writers start, out   *)
(* the lock and the writers.                                               *)

WriterCoin == SUPPORTED_COINS[1]

Writers == {1, 2}

DeleteStmt(coin) == [op |-> "delete", coin |-> coin, rec |-> <<>>, status |-> "", n |-> 0]

InsertStmt(rec) == [op |-> "insert", coin |-> rec.coin, rec |-> <<rec>>, status |-> "", n |-> 0]

LogStmt(coin, status, n) == [op |-> "log", coin |-> coin, rec |-> <<>>, status |-> status, n |-> n]

\* insert_ohlcv_data: one transaction, executemany over the tuples built of data
InsertTx(data) == [i \in 1..Len(data) |-> InsertStmt(OhlcvRecord(data[i]))]

\* main.py 75-85: the candles, then the log entry
IngestProgram(data) ==
    << InsertTx(data), <<LogStmt(WriterCoin, "success", Len(data))>> >>

\* _refresh_ohlc_30d 256-259: DELETE committed, the candles, the log entry
ReloadProgram(data) ==
    << <<DeleteStmt(WriterCoin)>>, InsertTx(data),
       <<LogStmt(WriterCoin, "success", Len(data))>> >>

\* the except block of main.py writes the error entry; st.error writes nothing
OnError(kind) ==
    IF kind = "ingest" THEN << <<LogStmt(WriterCoin, "error", 0)>> >> ELSE <<>>

\* the candles a program hands to INSERT OR REPLACE
Candles(prog) ==
    UNION { {stmts[k].rec[1] : k \in {j \in 1..Len(stmts) : stmts[j].op = "insert"}} :
            stmts \in Range(prog) }

\* a writer: the transactions still to run, the next statement of the first of
\* them (0: not begun), the tables as its open transaction sees them, and the
\* candles it was started with
Writer(kind, prog) ==
    [kind |-> kind, prog |-> prog, k |-> 0, tx |-> [ohlcv |-> {}, etl_logs |-> <<>>],
     failed |-> FALSE, errors |-> 0, candles |-> Candles(prog)]

\* one statement on the tables of the open transaction
Execute(tx, stmt) ==
    IF stmt.op = "delete" THEN [tx EXCEPT !.ohlcv = DeleteCoin(@, stmt.coin)]
    ELSE IF stmt.op = "insert" THEN [tx EXCEPT !.ohlcv = InsertOrReplace(@, stmt.rec[1])]
    ELSE [tx EXCEPT !.etl_logs = insert_etl_log(@, stmt.coin, stmt.status, stmt.n)]

\* IntegrityError: a NULL in a NOT NULL price column
Violates(stmt) == stmt.op = "insert" /\ ~NotNullOk(stmt.rec[1])

\* the candles in the store before the writers start
StoredCandles ==
    << Rec("ethereum", Timestamp(1), 1, 1, 1, 1, 7),
       Rec("bitcoin", Timestamp(1), 2, 2, 2, 2, 7),
       Rec("bitcoin", Timestamp(9), 2, 2, 2, 2, 7) >>

WriterTables ==
    {insert_ohlcv_data({}, SubSeq(StoredCandles, 1, n), FALSE).table : n \in 0..Len(StoredCandles)}

\* what a writer is about to write for the coin
WriterPrograms ==
    {[kind |-> "ingest",
      prog |-> IngestProgram(normalize_ohlcv_data(p, WriterCoin).rows)] :
         p \in {PayloadSpike, PayloadShort}}
    \cup {[kind |-> "reload", prog |-> ReloadProgram(OhlcFrame(p, WriterCoin, 0))] :
             p \in {PayloadShort, PayloadNull}}

WritersInit ==
    /\ ohlcv \in WriterTables
    /\ df = ohlcv
    /\ etl_logs = <<>>
    /\ anomalies = <<>>
    /\ run = Idle
    /\ last = NoOutcome
    /\ seen = {}
    /\ ops = 0
    /\ \E a \in WriterPrograms, b \in WriterPrograms :
          /\ a.kind = "ingest"
          /\ out = [lock |-> 0, w |-> <<Writer(a.kind, a.prog), Writer(b.kind, b.prog)>>]

WritersFrame == UNCHANGED <<anomalies, run, last, seen, ops, df>>

\* the exception of a transaction: rolled back, the lock released, the rest of the
\* program dropped for the handler's own writes
Raise(i) ==
    LET w == out.w[i]
        isLog == w.prog[1][1].op = "log"
    IN [out EXCEPT !.lock = IF out.lock = i THEN 0 ELSE @,
                   !.w[i] = [w EXCEPT !.prog = IF isLog \/ w.errors > 0 THEN <<>>
                                                 ELSE OnError(w.kind),
                                      !.k = 0, !.failed = TRUE, !.errors = @ + 1]]

\* a statement of writer i: the first one of a transaction takes the lock and
\* sees the committed tables; a NULL price raises IntegrityError
WriterExecute(i) ==
    /\ out.w[i].prog # <<>>
    /\ LET w == out.w[i]
           stmts == w.prog[1]
           first == w.k = 0
           k == IF first THEN 1 ELSE w.k
       IN /\ k <= Len(stmts)
          /\ IF first THEN out.lock = 0 ELSE out.lock = i
          /\ IF Violates(stmts[k]) THEN out' = Raise(i)
             ELSE out' = [out EXCEPT
                     !.lock = i,
                     !.w[i] = [w EXCEPT
                        !.k = k + 1,
                        !.tx = Execute(IF first THEN [ohlcv |-> ohlcv, etl_logs |-> etl_logs]
                                       ELSE w.tx, stmts[k])]]
    /\ UNCHANGED <<ohlcv, etl_logs>>
    /\ WritersFrame

\* conn.commit() of writer i, or an error of sqlite instead of it
WriterCommit(i) ==
    /\ out.w[i].prog # <<>>
    /\ out.lock = i
    /\ out.w[i].k > Len(out.w[i].prog[1])
    /\ \E fault \in BOOLEAN :
          LET committed == ~fault
              w == out.w[i]
          IN /\ ohlcv' = TransactionScope(ohlcv, w.tx.ohlcv, committed)
             /\ etl_logs' = TransactionScope(etl_logs, w.tx.etl_logs, committed)
             /\ out' = IF committed
                       THEN [out EXCEPT !.lock = 0,
                                        !.w[i] = [w EXCEPT !.prog = Tail(@), !.k = 0]]
                       ELSE Raise(i)
    /\ WritersFrame

\* the database is locked by the other writer for longer than the timeout of
\* the connection: OperationalError at the first statement
WriterBusy(i) ==
    /\ out.w[i].prog # <<>>
    /\ out.w[i].k = 0
    /\ out.lock \notin {0, i}
    /\ out' = Raise(i)
    /\ UNCHANGED <<ohlcv, etl_logs>>
    /\ WritersFrame

WritersNext == \E i \in Writers : WriterExecute(i) \/ WriterCommit(i) \/ WriterBusy(i)

SpecWriters == WritersInit /\ [][WritersNext]_vars

-----------------------------------------------------------------------------
(* Properties of the uncoordinated writers                                 *)

\* C30: whatever the interleaving of the two writers of a coin, the candle table
\* has at most one row per (coin, timestamp), every candle of the coin is a
\* candle one writer handed in (or one stored before), whole, and the candles
\* of the other coins are the ones stored before.
C30_RacingWritersKeepCandlesWhole ==
    /\ \A r \in ohlcv, q \in ohlcv :
          (r.coin = q.coin /\ r.timestamp = q.timestamp) => r = q
    /\ \A r \in ohlcv :
          r.coin = WriterCoin => r \in df \cup out.w[1].candles \cup out.w[2].candles
    /\ {r \in ohlcv : r.coin # WriterCoin} = {r \in df : r.coin # WriterCoin}

\* the pipeline's candles were committed between the DELETE and the insert of a
\* reload: both writers are through, and the table holds a candle of each
C30_Witness ==
    /\ out.w[1].kind = "ingest" /\ out.w[2].kind = "reload"
    /\ out.w[1].prog = <<>> /\ out.w[2].prog = <<>>
    /\ ~out.w[1].failed /\ ~out.w[2].failed
    /\ \E r \in ohlcv : r.coin = WriterCoin /\ r.timestamp.t = MaxRows /\ r.volume # 0
    /\ \E r \in ohlcv : r.coin = WriterCoin /\ r.volume = 0
    /\ df # {}


-----------------------------------------------------------------------------
(* Floating-point columns of the metrics.  A value is a rational n/d, a    *)
(* signed zero or infinity, NaN, or the application of a function that is  *)
(* not rational (log, sqrt, the standard deviation, the exponentially      *)
(* weighted mean) to values.                                               *)

FNaN == [k |-> "nan", n |-> 0, d |-> 1, s |-> 1, f |-> "", x |-> <<>>]

FInf(s) == [k |-> "inf", n |-> 0, d |-> 1, s |-> s, f |-> "", x |-> <<>>]

FZero(s) == [k |-> "fin", n |-> 0, d |-> 1, s |-> s, f |-> "", x |-> <<>>]

Abs(a) == IF a < 0 THEN -a ELSE a

\* the float n/d for d # 0, n # 0 in lowest terms
Fin(n, d) ==
    IF n = 0 THEN FZero(1)
    ELSE LET g == Gcd(Abs(n), Abs(d))
             sg == Sign(n) * Sign(d)
         IN [k |-> "fin", n |-> sg * (Abs(n) \div g), d |-> Abs(d) \div g, s |-> sg,
             f |-> "", x |-> <<>>]

F(n) == Fin(n, 1)

IsNaN(a) == a.k = "nan"

IsZero(a) == a.k = "fin" /\ a.n = 0

\* f(x) kept as an application; NaN in, NaN out
Term(f, x) ==
    IF \E i \in 1..Len(x) : IsNaN(x[i]) THEN FNaN
    ELSE [k |-> "term", n |-> 0, d |-> 1, s |-> 1, f |-> f, x |-> x]

FNeg(a) ==
    IF a.k = "nan" THEN FNaN
    ELSE IF a.k = "term" THEN Term("neg", <<a>>)
    ELSE [a EXCEPT !.n = -a.n, !.s = -a.s]

FAdd(a, b) ==
    IF a.k = "nan" \/ b.k = "nan" THEN FNaN
    ELSE IF a.k = "term" \/ b.k = "term" THEN Term("add", <<a, b>>)
    ELSE IF a.k = "inf" /\ b.k = "inf" THEN (IF a.s = b.s THEN a ELSE FNaN)
    ELSE IF a.k = "inf" THEN a
    ELSE IF b.k = "inf" THEN b
    ELSE LET n == a.n * b.d + b.n * a.d
         IN IF n = 0 THEN FZero(IF a.s = -1 /\ b.s = -1 THEN -1 ELSE 1)
            ELSE Fin(n, a.d * b.d)

FSub(a, b) == FAdd(a, FNeg(b))

FMul(a, b) ==
    IF a.k = "nan" \/ b.k = "nan" THEN FNaN
    ELSE IF a.k = "term" \/ b.k = "term" THEN Term("mul", <<a, b>>)
    ELSE IF (a.k = "inf" /\ IsZero(b)) \/ (IsZero(a) /\ b.k = "inf") THEN FNaN
    ELSE IF a.k = "inf" \/ b.k = "inf" THEN FInf(a.s * b.s)
    ELSE IF a.n * b.n = 0 THEN FZero(a.s * b.s)
    ELSE Fin(a.n * b.n, a.d * b.d)

\* faulty variant: a division by zero yields NaN
FDivZeroNaN(a, b) ==
    IF a.k = "nan" \/ b.k = "nan" THEN FNaN
    ELSE IF a.k = "term" \/ b.k = "term" THEN Term("div", <<a, b>>)
    ELSE IF a.k = "inf" /\ b.k = "inf" THEN FNaN
    ELSE IF IsZero(b) THEN FNaN
    ELSE IF a.k = "inf" THEN FInf(a.s * b.s)
    ELSE IF b.k = "inf" \/ IsZero(a) THEN FZero(a.s * b.s)
    ELSE Fin(a.n * b.d, a.d * b.n)

\* IEEE division of the columns: x/0 is an infinity with the sign of both, 0/0
\* and inf/inf are NaN, x/inf is a zero
FDiv(a, b) ==
    IF a.k = "nan" \/ b.k = "nan" THEN FNaN
    ELSE IF a.k = "term" \/ b.k = "term" THEN Term("div", <<a, b>>)
    ELSE IF (a.k = "inf" /\ b.k = "inf") \/ (IsZero(a) /\ IsZero(b)) THEN FNaN
    ELSE IF IsZero(b) \/ a.k = "inf" THEN FInf(a.s * b.s)
    ELSE IF b.k = "inf" \/ IsZero(a) THEN FZero(a.s * b.s)
    ELSE Fin(a.n * b.d, a.d * b.n)

\* x > 0 and x < 0; a comparison with NaN is False
IsPos(a) == (a.k = "inf" /\ a.s = 1) \/ (a.k = "fin" /\ a.n > 0)

IsNeg(a) == (a.k = "inf" /\ a.s = -1) \/ (a.k = "fin" /\ a.n < 0)

\* a <= b for two rationals
FinLeq(a, b) == a.n * b.d <= b.n * a.d

\* a == b for two floats: the two zeros are equal
NumEq(a, b) == a = b \/ (IsZero(a) /\ IsZero(b))

RECURSIVE FSumTo(_, _)
\* the running sum of a window, started at 0.0
FSumTo(v, k) == IF k = 0 THEN FZero(1) ELSE FAdd(FSumTo(v, k - 1), v[k])

\* Series.shift(1)
Shift(col) == [i \in 1..Len(col) |-> IF i = 1 THEN FNaN ELSE col[i - 1]]

\* Series.diff()
Diff(col) == [i \in 1..Len(col) |-> FSub(col[i], Shift(col)[i])]

\* Series.pct_change()
PctChange(col) == [i \in 1..Len(col) |-> FSub(FDiv(col[i], Shift(col)[i]), F(1))]

\* the pandas builds differ in the mean of a window of equal values: the value
\* itself, or the sum divided by the count
PandasBuilds == {"same_value", "sum"}

\* Series.rolling(window=window).mean(): NaN until the window is full and when
\* it holds a NaN
RollingMean(col, window, build) ==
    [i \in 1..Len(col) |->
        IF i < window \/ window < 1 THEN FNaN
        ELSE LET v == SubSeq(col, i - window + 1, i)
             IN IF \E j \in 1..window : IsNaN(v[j]) THEN FNaN
                ELSE IF build = "same_value" /\ \A j \in 1..window : NumEq(v[j], v[window])
                     THEN v[window]
                ELSE FDiv(FSumTo(v, window), F(window))]

\* Series.rolling(window=window).std(): sample standard deviation (ddof = 1)
RollingStd(col, window) ==
    [i \in 1..Len(col) |->
        IF i < window \/ window < 2 THEN FNaN
        ELSE Term("std", SubSeq(col, i - window + 1, i))]

\* Series.ewm(span=span).mean(): weighted mean of the values up to the row
Ewm(col, span) ==
    [i \in 1..Len(col) |->
        IF \A j \in 1..i : IsNaN(col[j]) THEN FNaN
        ELSE [k |-> "term", n |-> span, d |-> 1, s |-> 1, f |-> "ewm",
              x |-> SubSeq(col, 1, i)]]

RECURSIVE CumTo(_, _, _)
\* cumsum / cumprod up to row k, NaN skipped; op is "add" or "mul"
CumTo(col, k, op) ==
    IF k = 0 THEN (IF op = "add" THEN FZero(1) ELSE F(1))
    ELSE LET before == CumTo(col, k - 1, op)
         IN IF IsNaN(col[k]) THEN before
            ELSE IF op = "add" THEN FAdd(before, col[k]) ELSE FMul(before, col[k])

\* Series.cumsum() / Series.cumprod(): NaN where the row is NaN
Cum(col, op) ==
    [i \in 1..Len(col) |-> IF IsNaN(col[i]) THEN FNaN ELSE CumTo(col, i, op)]

\* element-wise operations of two columns, and of a column and a number
ColAdd(a, b) == [i \in 1..Len(a) |-> FAdd(a[i], b[i])]

ColSub(a, b) == [i \in 1..Len(a) |-> FSub(a[i], b[i])]

ColMul(a, b) == [i \in 1..Len(a) |-> FMul(a[i], b[i])]

ColDiv(a, b) == [i \in 1..Len(a) |-> FDiv(a[i], b[i])]

Scalar(col, v) == [i \in 1..Len(col) |-> v]


-----------------------------------------------------------------------------
(* Metrics (src/analysis/metrics.py) and the moving averages of the data   *)
(* processor.  A table is its column names in order and its columns; a     *)
(* call yields the table the caller passed, as it is after the call, and   *)
(* the table returned.                                                     *)

Table(columns, cols) == [columns |-> columns, col |-> cols]

\* df[name] = values: the column is replaced, or added as the last one
SetCol(t, name, values) ==
    Table(IF name \in Range(t.columns) THEN t.columns ELSE Append(t.columns, name),
          [c \in Range(t.columns) \cup {name} |-> IF c = name THEN values ELSE t.col[c]])

Has(t, name) == name \in Range(t.columns)

\* faulty variant: the columns are set on the caller's table
CallInPlace(passed, returned) == [arg |-> returned, ret |-> returned, raised |-> FALSE]

\* df = df.copy(): the columns are set on a copy, the caller's table stays
Call(passed, returned) == [arg |-> passed, ret |-> returned, raised |-> FALSE]

\* return df: the table passed is returned as it is
Same(passed) == [arg |-> passed, ret |-> passed, raised |-> FALSE]

\* df[price_column] of a table without that column: KeyError
KeyError(passed) == [arg |-> passed, ret |-> passed, raised |-> TRUE]

\* f'{prefix}{window}'
ColumnName(prefix, window) == prefix \o ToString(window)

ReturnsColumns(t, price_column) ==
    LET close == t.col[price_column]
        d1 == SetCol(t, "returns", PctChange(close))
        d2 == SetCol(d1, "log_returns",
                     [i \in 1..Len(close) |-> Term("log", <<FDiv(close[i], Shift(close)[i])>>)])
    IN SetCol(d2, "cumulative_returns",
              ColSub(Cum(ColAdd(Scalar(close, F(1)), d2.col["returns"]), "mul"),
                     Scalar(close, F(1))))

calculate_returns(t, price_column) ==
    IF ~Has(t, price_column) THEN Same(t) ELSE Call(t, ReturnsColumns(t, price_column))

calculate_volatility(t, price_column, window, annualize) ==
    IF ~Has(t, price_column) THEN Same(t)
    ELSE LET d0 == IF ~Has(t, "returns") THEN calculate_returns(t, price_column).ret ELSE t
             d1 == SetCol(d0, "volatility", RollingStd(d0.col["returns"], window))
         IN Call(t, IF annualize
                    THEN SetCol(d1, "volatility_annualized",
                                ColMul(d1.col["volatility"],
                                       Scalar(d1.col["volatility"], Term("sqrt", <<F(365)>>))))
                    ELSE d1)

RECURSIVE MovingAverageColumns(_, _, _, _, _)
\* the loop over windows: sma_N, then ema_N when the caller asks for it
MovingAverageColumns(t, price_column, windows, k, build) ==
    IF k = 0 THEN t
    ELSE LET d == MovingAverageColumns(t, price_column, windows, k - 1, build)
             sma == SetCol(d, ColumnName("sma_", windows[k]),
                           RollingMean(t.col[price_column], windows[k], build.pandas))
         IN IF build.ema
            THEN SetCol(sma, ColumnName("ema_", windows[k]),
                        Ewm(t.col[price_column], windows[k]))
            ELSE sma

\* MetricsCalculator.calculate_moving_averages
calculate_moving_averages(t, price_column, windows, build) ==
    IF ~Has(t, price_column) THEN Same(t)
    ELSE Call(t, MovingAverageColumns(t, price_column, windows, Len(windows),
                                      [pandas |-> build, ema |-> TRUE]))

\* DataProcessor.calculate_moving_averages: no check of the column, sma_N only
processor_calculate_moving_averages(t, price_column, windows, build) ==
    IF windows # <<>> /\ ~Has(t, price_column) THEN KeyError(t)
    ELSE Call(t, MovingAverageColumns(t, price_column, windows, Len(windows),
                                      [pandas |-> build, ema |-> FALSE]))

calculate_bollinger_bands(t, price_column, window, num_std, build) ==
    IF ~Has(t, price_column) THEN Same(t)
    ELSE LET close == t.col[price_column]
             d1 == SetCol(t, "bb_middle", RollingMean(close, window, build))
             d2 == SetCol(d1, "bb_std", RollingStd(close, window))
             width == ColMul(d2.col["bb_std"], Scalar(close, F(num_std)))
             d3 == SetCol(d2, "bb_upper", ColAdd(d2.col["bb_middle"], width))
             d4 == SetCol(d3, "bb_lower", ColSub(d3.col["bb_middle"], width))
         IN Call(t, SetCol(d4, "bb_position",
                           ColDiv(ColSub(close, d4.col["bb_lower"]),
                                  ColSub(d4.col["bb_upper"], d4.col["bb_lower"]))))

calculate_rsi(t, price_column, window, build) ==
    IF ~Has(t, price_column) THEN Same(t)
    ELSE LET n == Len(t.col[price_column])
             d1 == SetCol(t, "price_change", Diff(t.col[price_column]))
             change == d1.col["price_change"]
             d2 == SetCol(d1, "gains",
                          [i \in 1..n |-> IF IsPos(change[i]) THEN change[i] ELSE F(0)])
             d3 == SetCol(d2, "losses",
                          [i \in 1..n |-> FNeg(IF IsNeg(change[i]) THEN change[i] ELSE F(0))])
             d4 == SetCol(d3, "avg_gains", RollingMean(d3.col["gains"], window, build))
             d5 == SetCol(d4, "avg_losses", RollingMean(d4.col["losses"], window, build))
             rs == ColDiv(d5.col["avg_gains"], d5.col["avg_losses"])
         IN Call(t, SetCol(d5, "rsi",
                           ColSub(Scalar(rs, F(100)),
                                  ColDiv(Scalar(rs, F(100)), ColAdd(Scalar(rs, F(1)), rs)))))

calculate_macd(t, price_column, fast, slow, signal) ==
    IF ~Has(t, price_column) THEN Same(t)
    ELSE LET d1 == SetCol(t, "ema_fast", Ewm(t.col[price_column], fast))
             d2 == SetCol(d1, "ema_slow", Ewm(t.col[price_column], slow))
             d3 == SetCol(d2, "macd", ColSub(d2.col["ema_fast"], d2.col["ema_slow"]))
             d4 == SetCol(d3, "macd_signal", Ewm(d3.col["macd"], signal))
         IN Call(t, SetCol(d4, "macd_histogram",
                           ColSub(d4.col["macd"], d4.col["macd_signal"])))

calculate_volume_metrics(t, build) ==
    IF ~Has(t, "volume") THEN Same(t)
    ELSE IF ~(Has(t, "high") /\ Has(t, "low") /\ Has(t, "close")) THEN KeyError(t)
    ELSE LET volume == t.col["volume"]
             d1 == SetCol(t, "volume_sma_7", RollingMean(volume, 7, build))
             d2 == SetCol(d1, "volume_sma_30", RollingMean(volume, 30, build))
             d3 == SetCol(d2, "volume_ratio", ColDiv(volume, d2.col["volume_sma_30"]))
             typical == ColDiv(ColMul(volume, ColAdd(ColAdd(t.col["high"], t.col["low"]),
                                                     t.col["close"])),
                               Scalar(volume, F(3)))
         IN Call(t, SetCol(d3, "vwap", ColDiv(Cum(typical, "add"), Cum(volume, "add"))))

\* the transforms one after the other, each with its default parameters
calculate_all_metrics(t, price_column, build) ==
    LET d1 == calculate_returns(t, price_column).ret
        d2 == calculate_volatility(d1, price_column, 24, TRUE).ret
        d3 == calculate_moving_averages(d2, price_column, <<7, 30, 90>>, build).ret
        d4 == calculate_bollinger_bands(d3, price_column, 20, 2, build).ret
        d5 == calculate_rsi(d4, price_column, 14, build).ret
        d6 == calculate_macd(d5, price_column, 12, 26, 9).ret
        last_call == calculate_volume_metrics(d6, build)
    IN [arg |-> calculate_returns(t, price_column).arg, ret |-> last_call.ret,
        raised |-> last_call.raised]


-----------------------------------------------------------------------------
(* The transforms applied to a table (specification SpecMetrics): df is    *)
(* the caller's table, out the call and its result.                        *)

\* rows of a table handed to a transform
MaxMetricRows == 3

ClosePrices == {1, 2, 4}

\* window sizes a caller asks for, and lists of them
MetricWindows == {1, 2, 3}

WindowLists == {<<>>, <<2>>, <<3, 2>>}

BaseColumns == <<"timestamp", "open", "high", "low", "close", "volume", "coin">>

\* the volume column of a normalized table: NaN for five-column payloads
VolumesOf(n, kind) ==
    [i \in 1..n |-> IF kind = "nan" THEN FNaN ELSE IF kind = "flat" THEN F(5) ELSE F(i - 1)]

\* the table of the normalizer for the closes given; shape "close" is the
\* one-column table of the tests, "returns" a table that already went through
\* pct_change, "price" a price history (no close column)
MetricTable(closes, volume, shape) ==
    LET n == Len(closes)
        close == [i \in 1..n |-> F(closes[i])]
        ohlcv_table ==
            Table(BaseColumns,
                  [c \in Range(BaseColumns) |->
                      IF c = "timestamp" THEN [i \in 1..n |-> Timestamp(i)]
                      ELSE IF c = "coin" THEN [i \in 1..n |-> SUPPORTED_COINS[1]]
                      ELSE IF c = "volume" THEN VolumesOf(n, volume)
                      ELSE IF c = "high" THEN [i \in 1..n |-> F(closes[i] + 1)]
                      ELSE close])
    IN  IF shape = "close" THEN Table(<<"close">>, [c \in {"close"} |-> close])
        ELSE IF shape = "returns" THEN SetCol(ohlcv_table, "returns", PctChange(close))
        ELSE IF shape = "price"
        THEN Table(<<"timestamp", "price", "volume", "coin">>,
                   [c \in {"timestamp", "price", "volume", "coin"} |->
                       IF c = "price" THEN close ELSE ohlcv_table.col[c]])
        ELSE ohlcv_table

NoTable == Table(<<>>, <<>>)

MetricsOut(op, args, input, r) ==
    [op |-> op, args |-> args, input |-> input, ret |-> r.ret, raised |-> r.raised]

Args(price_column, windows, build, annualize) ==
    [price_column |-> price_column, windows |-> windows, build |-> build,
     annualize |-> annualize]

MetricsInit ==
    /\ ohlcv = {}
    /\ etl_logs = <<>>
    /\ anomalies = <<>>
    /\ run = Idle
    /\ last = NoOutcome
    /\ seen = {}
    /\ ops = 0
    /\ \E n \in 0..MaxMetricRows :
         \E closes \in [1..n -> ClosePrices], volume \in {"nan", "flat", "rising"},
            shape \in {"ohlcv", "close", "returns", "price"} :
                df = MetricTable(closes, volume, shape)
    /\ out = MetricsOut("none", Args("", <<>>, "", FALSE), NoTable, Same(NoTable))

\* one call: the caller's table becomes what the call left of it
MetricsCall(op, args, r) ==
    /\ out.op = "none"
    /\ out' = MetricsOut(op, args, df, r)
    /\ df' = r.arg
    /\ UNCHANGED <<ohlcv, etl_logs, anomalies, run, last, seen, ops>>

PriceColumns == {"close", "price"}

CalculateReturns ==
    \E pc \in PriceColumns :
        MetricsCall("calculate_returns", Args(pc, <<>>, "", FALSE), calculate_returns(df, pc))

CalculateVolatility ==
    \E pc \in PriceColumns, window \in MetricWindows, annualize \in BOOLEAN :
        MetricsCall("calculate_volatility", Args(pc, <<window>>, "", annualize),
                    calculate_volatility(df, pc, window, annualize))

CalculateMovingAverages ==
    \E pc \in PriceColumns, windows \in WindowLists, build \in PandasBuilds :
        MetricsCall("calculate_moving_averages", Args(pc, windows, build, FALSE),
                    calculate_moving_averages(df, pc, windows, build))

ProcessorMovingAverages ==
    \E pc \in PriceColumns, windows \in WindowLists, build \in PandasBuilds :
        MetricsCall("DataProcessor.calculate_moving_averages", Args(pc, windows, build, FALSE),
                    processor_calculate_moving_averages(df, pc, windows, build))

CalculateBollingerBands ==
    \E pc \in PriceColumns, window \in MetricWindows, build \in PandasBuilds :
        MetricsCall("calculate_bollinger_bands", Args(pc, <<window>>, build, FALSE),
                    calculate_bollinger_bands(df, pc, window, 2, build))

CalculateRsi ==
    \E pc \in PriceColumns, window \in MetricWindows, build \in PandasBuilds :
        MetricsCall("calculate_rsi", Args(pc, <<window>>, build, FALSE),
                    calculate_rsi(df, pc, window, build))

CalculateMacd ==
    \E pc \in PriceColumns :
        MetricsCall("calculate_macd", Args(pc, <<12, 26, 9>>, "", FALSE),
                    calculate_macd(df, pc, 12, 26, 9))

CalculateVolumeMetrics ==
    \E build \in PandasBuilds :
        MetricsCall("calculate_volume_metrics", Args("", <<>>, build, FALSE),
                    calculate_volume_metrics(df, build))

CalculateAllMetrics ==
    \E pc \in PriceColumns, build \in PandasBuilds :
        MetricsCall("calculate_all_metrics", Args(pc, <<>>, build, FALSE),
                    calculate_all_metrics(df, pc, build))

MetricsNext ==
    \/ CalculateReturns
    \/ CalculateVolatility
    \/ CalculateMovingAverages
    \/ ProcessorMovingAverages
    \/ CalculateBollingerBands
    \/ CalculateRsi
    \/ CalculateMacd
    \/ CalculateVolumeMetrics
    \/ CalculateAllMetrics

SpecMetrics == MetricsInit /\ [][MetricsNext]_vars

-----------------------------------------------------------------------------
(* Properties of the metrics                                               *)

MetricTransforms ==
    {"calculate_returns", "calculate_volatility", "calculate_moving_averages",
     "calculate_bollinger_bands", "calculate_rsi", "calculate_macd",
     "calculate_volume_metrics", "calculate_all_metrics"}

\* C22: a transform of the metrics, and calculate_all_metrics, leaves the table
\* it was given as it was; the table it returns has the columns of the input in
\* their order and with their values (so the rows, their order and coin,
\* timestamp, open, high, low, close, volume are unchanged) followed by added
\* columns of the same length; calculate_volatility on a table that has a
\* returns column (and the price column) adds the volatility columns only.
C22_TransformsOnlyAddColumns ==
    (out.op \in MetricTransforms /\ ~out.raised) =>
        /\ df = out.input
        /\ IsPrefix(out.input.columns, out.ret.columns)
        /\ \A c \in Range(out.input.columns) : out.ret.col[c] = out.input.col[c]
        /\ \A c \in Range(out.ret.columns), b \in Range(out.input.columns) :
              Len(out.ret.col[c]) = Len(out.input.col[b])
        /\ (/\ out.op = "calculate_volatility"
            /\ Has(out.input, out.args.price_column)
            /\ Has(out.input, "returns")) =>
              out.ret.columns = out.input.columns \o
                    (IF out.args.annualize THEN <<"volatility", "volatility_annualized">>
                     ELSE <<"volatility">>)

\* calculate_all_metrics on a normalized table of three candles, and
\* calculate_volatility on a table with a returns column
C22_Witness ==
    /\ out.op = "calculate_all_metrics"
    /\ out.input.columns = BaseColumns
    /\ Len(out.input.col["close"]) = MaxMetricRows
    /\ Has(out.ret, "vwap") /\ Has(out.ret, "rsi") /\ Has(out.ret, "returns")
    /\ ~IsNaN(out.ret.col["returns"][2])

\* C23: at a row whose window is full, with average loss 0 and average gain
\* above 0 (the price rose throughout the window), the RSI is a number from 50
\* to 100, not NaN and not infinite.
C23_RsiOfRisingPrices ==
    (out.op = "calculate_rsi" /\ Has(out.ret, "rsi")) =>
        \A i \in 1..Len(out.ret.col["rsi"]) :
            (/\ i >= out.args.windows[1]
             /\ IsZero(out.ret.col["avg_losses"][i])
             /\ IsPos(out.ret.col["avg_gains"][i]))
            => /\ out.ret.col["rsi"][i].k = "fin"
               /\ FinLeq(F(50), out.ret.col["rsi"][i])
               /\ FinLeq(out.ret.col["rsi"][i], F(100))

\* closes 1, 2, 4 with a window of 3: the RSI of the third row is 100
C23_Witness ==
    /\ out.op = "calculate_rsi"
    /\ Has(out.ret, "rsi")
    /\ out.args.windows = <<3>>
    /\ out.input.col[out.args.price_column] = <<F(1), F(2), F(4)>>
    /\ out.ret.col["rsi"][3] = F(100)

\* C25 (as stated): DataProcessor.calculate_moving_averages adds, for every
\* window N asked for, the columns sma_N and ema_N of the price column, each the
\* average over that window alone.
C25_SmaAndEmaPerWindow ==
    (out.op = "DataProcessor.calculate_moving_averages" /\ ~out.raised) =>
        \A k \in 1..Len(out.args.windows) :
            LET N == out.args.windows[k]
                close == out.input.col[out.args.price_column]
            IN /\ Has(out.ret, ColumnName("sma_", N))
               /\ out.ret.col[ColumnName("sma_", N)] = RollingMean(close, N, out.args.build)
               /\ Has(out.ret, ColumnName("ema_", N))
               /\ out.ret.col[ColumnName("ema_", N)] = Ewm(close, N)

====
